---- MODULE Spec2Model ----
(***************************************************************************)
(* Workflow plugin layer (workflow/plugins/rust): the node contract        *)
(*   execute(inputs, runtime) -> outputs                                   *)
(* over the dynamic serde_json Value, the variable store handed to nodes   *)
(* as Option<&dyn Any>, and the orchestrator that applies the intents      *)
(* returned by var.set / var.delete / var.clear.                           *)
(***************************************************************************)
EXTENDS Integers, Sequences, FiniteSets, TLC

(***************************************************************************)
(* Bounds of the model.                                                    *)
(***************************************************************************)
NumProcs == 2      \* concurrent node invocations
MaxKeys == 2       \* size of the universe of store keys
MaxLen == 3        \* longest list / string handed to a pure node

Procs == 1..NumProcs

KeyNames == <<"a", "b", "c", "e">>
Keys == {KeyNames[i] : i \in 1..MaxKeys}

(***************************************************************************)
(* serde_json::Value.  A Number keeps serde_json's distinction between an  *)
(* integer (json!(0)) and a float (json!(0.0)); the float is a fraction    *)
(* n/d in lowest terms.                                                    *)
(***************************************************************************)
VNull == [t |-> "null"]
VBool(b) == [t |-> "bool", b |-> b]
VInt(n) == [t |-> "num", k |-> "int", n |-> n, d |-> 1]
VFloat(n, d) == [t |-> "num", k |-> "float", n |-> n, d |-> d]
VStr(s) == [t |-> "str", s |-> s]
VList(l) == [t |-> "list", l |-> l]
VObj(o) == [t |-> "obj", o |-> o]

\* Option<T>
None == [some |-> FALSE]
Some(x) == [some |-> TRUE, v |-> x]
unwrap_or(o, dflt) == IF o.some THEN o.v ELSE dflt

\* HashMap::get on an inputs / outputs / store mapping
get(m, k) == IF k \in DOMAIN m THEN Some(m[k]) ELSE None

EmptyMap == <<>>

\* inputs.get(key).and_then(|v| serde_json::from_value::<String>(v).ok())
from_value_String(o) == IF o.some /\ o.v.t = "str" THEN Some(o.v.s) ELSE None

\* inputs.get(key).and_then(|v| serde_json::from_value::<Vec<Value>>(v).ok())
from_value_VecValue(o) == IF o.some /\ o.v.t = "list" THEN Some(o.v.l) ELSE None

\* inputs.get(key).and_then(|v| serde_json::from_value::<Vec<f64>>(v).ok()):
\* fails as a whole when one element is not a number; integers widen to f64
from_value_VecF64(o) ==
    IF o.some /\ o.v.t = "list" /\ \A i \in 1..Len(o.v.l) : o.v.l[i].t = "num"
    THEN Some([i \in 1..Len(o.v.l) |-> [n |-> o.v.l[i].n, d |-> o.v.l[i].d]])
    ELSE None

\* inputs.get(key).and_then(|v| serde_json::from_value::<i64>(v).ok()):
\* an integer Number only; a float Number is refused
from_value_i64(o) ==
    IF o.some /\ o.v.t = "num" /\ o.v.k = "int" THEN Some(o.v.n) ELSE None

\* inputs.get(key).and_then(|v| serde_json::from_value::<f64>(v).ok()):
\* any Number; an integer widens to f64
from_value_f64(o) ==
    IF o.some /\ o.v.t = "num" THEN Some([n |-> o.v.n, d |-> o.v.d]) ELSE None

(***************************************************************************)
(* The runtime argument, Option<&dyn Any>: absent, a reference to the      *)
(* store HashMap<String, Value>, or a reference to some other type.  A     *)
(* HashMap is its content (map) and the order in which it iterates (ord).  *)
(***************************************************************************)
RtNone == [kind |-> "none"]
RtOther == [kind |-> "other"]
RtStore(m, ord) == [kind |-> "store", map |-> m, ord |-> ord]

\* runtime.and_then(|rt| rt.downcast_ref::<HashMap<String, Value>>())
downcast_ref(rt) == IF rt.kind = "store" THEN Some(rt) ELSE None

\* HashMap::contains_key
contains_key(st, k) == k \in DOMAIN st.map

(***************************************************************************)
(* var.* nodes                                                             *)
(***************************************************************************)
\* var.get that forgets the caller's default when it is given no store
VarGetNullWithoutStore(inputs, rt) ==
    LET key == from_value_String(get(inputs, "key")) IN
    IF key.some
    THEN LET dflt == unwrap_or(get(inputs, "default"), VNull)
             st == downcast_ref(rt)
             exists == IF st.some THEN contains_key(st.v, key.v) ELSE FALSE
             value == IF st.some THEN unwrap_or(get(st.v.map, key.v), dflt) ELSE VNull
         IN  ("result" :> value) @@ ("exists" :> VBool(exists))
    ELSE ("result" :> VNull) @@ ("exists" :> VBool(FALSE))
            @@ ("error" :> VStr("key is required"))

\* var.get that takes a stored null for a missing entry
VarGetDefaultOnNull(inputs, rt) ==
    LET key == from_value_String(get(inputs, "key")) IN
    IF key.some
    THEN LET dflt == unwrap_or(get(inputs, "default"), VNull)
             st == downcast_ref(rt)
             found == IF st.some THEN get(st.v.map, key.v) ELSE None
             exists == found.some /\ found.v # VNull
             value == IF exists THEN found.v ELSE dflt
         IN  ("result" :> value) @@ ("exists" :> VBool(exists))
    ELSE ("result" :> VNull) @@ ("exists" :> VBool(FALSE))
            @@ ("error" :> VStr("key is required"))

VarGet(inputs, rt) ==
    LET key == from_value_String(get(inputs, "key")) IN
    IF key.some
    THEN LET dflt == unwrap_or(get(inputs, "default"), VNull)
             st == downcast_ref(rt)
             exists == IF st.some THEN contains_key(st.v, key.v) ELSE FALSE
             value == IF st.some THEN unwrap_or(get(st.v.map, key.v), dflt) ELSE dflt
         IN  ("result" :> value) @@ ("exists" :> VBool(exists))
    ELSE ("result" :> VNull) @@ ("exists" :> VBool(FALSE))
            @@ ("error" :> VStr("key is required"))

\* var.set that refuses to work without a store
VarSetNeedsStore(inputs, rt) ==
    LET key == from_value_String(get(inputs, "key")) IN
    IF key.some /\ downcast_ref(rt).some
    THEN LET value == unwrap_or(get(inputs, "value"), VNull)
         IN  ("success" :> VBool(TRUE)) @@ ("key" :> VStr(key.v)) @@ ("value" :> value)
    ELSE ("success" :> VBool(FALSE)) @@ ("error" :> VStr("key is required"))

VarSet(inputs, rt) ==
    LET key == from_value_String(get(inputs, "key")) IN
    IF key.some
    THEN LET value == unwrap_or(get(inputs, "value"), VNull)
         IN  ("success" :> VBool(TRUE)) @@ ("key" :> VStr(key.v)) @@ ("value" :> value)
    ELSE ("success" :> VBool(FALSE)) @@ ("error" :> VStr("key is required"))

\* var.delete that reports a stored null as not existing
VarDeleteNonNull(inputs, rt) ==
    LET key == from_value_String(get(inputs, "key")) IN
    IF key.some
    THEN LET st == downcast_ref(rt)
             found == IF st.some THEN get(st.v.map, key.v) ELSE None
             existed == found.some /\ found.v # VNull
         IN  ("success" :> VBool(TRUE)) @@ ("key" :> VStr(key.v))
                @@ ("existed" :> VBool(existed))
    ELSE ("success" :> VBool(FALSE)) @@ ("error" :> VStr("key is required"))

\* var.delete that takes every key for an existing one
VarDeleteAlwaysExisted(inputs, rt) ==
    LET key == from_value_String(get(inputs, "key")) IN
    IF key.some
    THEN ("success" :> VBool(TRUE)) @@ ("key" :> VStr(key.v)) @@ ("existed" :> VBool(TRUE))
    ELSE ("success" :> VBool(FALSE)) @@ ("error" :> VStr("key is required"))

VarDelete(inputs, rt) ==
    LET key == from_value_String(get(inputs, "key")) IN
    IF key.some
    THEN LET st == downcast_ref(rt)
             existed == IF st.some THEN contains_key(st.v, key.v) ELSE FALSE
         IN  ("success" :> VBool(TRUE)) @@ ("key" :> VStr(key.v))
                @@ ("existed" :> VBool(existed))
    ELSE ("success" :> VBool(FALSE)) @@ ("error" :> VStr("key is required"))

\* var.exists that reports a stored null as not existing
VarExistsNonNull(inputs, rt) ==
    LET key == from_value_String(get(inputs, "key")) IN
    IF key.some
    THEN LET st == downcast_ref(rt)
             found == IF st.some THEN get(st.v.map, key.v) ELSE None
         IN  "result" :> VBool(found.some /\ found.v # VNull)
    ELSE ("result" :> VBool(FALSE)) @@ ("error" :> VStr("key is required"))

VarExists(inputs, rt) ==
    LET key == from_value_String(get(inputs, "key")) IN
    IF key.some
    THEN LET st == downcast_ref(rt)
             exists == IF st.some THEN contains_key(st.v, key.v) ELSE FALSE
         IN  "result" :> VBool(exists)
    ELSE ("result" :> VBool(FALSE)) @@ ("error" :> VStr("key is required"))

\* var.keys that stops after the first key
VarKeysFirstOnly(inputs, rt) ==
    LET st == downcast_ref(rt)
        keys == IF st.some THEN SelectSeq(st.v.ord, LAMBDA k : k = Head(st.v.ord)) ELSE <<>>
    IN  "result" :> VList([i \in 1..Len(keys) |-> VStr(keys[i])])

\* store.keys().cloned().collect(): the keys in the HashMap's iteration order
VarKeys(inputs, rt) ==
    LET st == downcast_ref(rt)
        keys == IF st.some THEN st.v.ord ELSE <<>>
    IN  "result" :> VList([i \in 1..Len(keys) |-> VStr(keys[i])])

\* var.clear that counts what is left after clearing
VarClearCountsAfter(inputs, rt) ==
    ("success" :> VBool(TRUE)) @@ ("cleared" :> VInt(0))

VarClear(inputs, rt) ==
    LET st == downcast_ref(rt)
        count == IF st.some THEN Cardinality(DOMAIN st.v.map) ELSE 0
    IN  ("success" :> VBool(TRUE)) @@ ("cleared" :> VInt(count))

(***************************************************************************)
(* The outcome of one call of execute: it returns an output mapping, or    *)
(* it panics and unwinds into the host.                                    *)
(***************************************************************************)
Returned(o) == [panic |-> FALSE, out |-> o]
Panicked == [panic |-> TRUE, out |-> EmptyMap]

(***************************************************************************)
(* list.sort                                                               *)
(***************************************************************************)
\* Unicode scalar value of the characters used in the model
CodePoint ==
    ("0" :> 48) @@ ("1" :> 49) @@ ("2" :> 50) @@ ("a" :> 97) @@ ("b" :> 98)
        @@ ("c" :> 99) @@ ("d" :> 100) @@ ("e" :> 101)

\* core::cmp::Ordering of two integers
IntCmp(x, y) == IF x < y THEN "Less" ELSE IF x > y THEN "Greater" ELSE "Equal"

\* String::cmp: lexicographic by code point
RECURSIVE StrCmp(_, _)
StrCmp(s1, s2) ==
    IF Len(s1) = 0 \/ Len(s2) = 0
    THEN IntCmp(Len(s1), Len(s2))
    ELSE LET c == IntCmp(CodePoint[Head(s1)], CodePoint[Head(s2)])
         IN  IF c # "Equal" THEN c ELSE StrCmp(Tail(s1), Tail(s2))

\* a closure without the arms that put null first
cmpWithoutNullArms(a, b) ==
    CASE a.t = "num" /\ b.t = "num" -> IntCmp(a.n * b.d, b.n * a.d)
      [] a.t = "str" /\ b.t = "str" -> StrCmp(a.s, b.s)
      [] a.t = "bool" /\ b.t = "bool" ->
            IntCmp(IF a.b THEN 1 ELSE 0, IF b.b THEN 1 ELSE 0)
      [] OTHER -> "Equal"

\* a closure that orders strings by length before content
cmpStringsByLength(a, b) ==
    CASE a.t = "num" /\ b.t = "num" -> IntCmp(a.n * b.d, b.n * a.d)
      [] a.t = "str" /\ b.t = "str" ->
            IF Len(a.s) # Len(b.s) THEN IntCmp(Len(a.s), Len(b.s)) ELSE StrCmp(a.s, b.s)
      [] a.t = "bool" /\ b.t = "bool" ->
            IntCmp(IF a.b THEN 1 ELSE 0, IF b.b THEN 1 ELSE 0)
      [] a.t = "null" /\ b.t = "null" -> "Equal"
      [] a.t = "null" /\ b.t # "null" -> "Less"
      [] a.t # "null" /\ b.t = "null" -> "Greater"
      [] OTHER -> "Equal"

\* the closure handed to sort_by
cmp(a, b) ==
    CASE a.t = "num" /\ b.t = "num" -> IntCmp(a.n * b.d, b.n * a.d)
      [] a.t = "str" /\ b.t = "str" -> StrCmp(a.s, b.s)
      [] a.t = "bool" /\ b.t = "bool" ->
            IntCmp(IF a.b THEN 1 ELSE 0, IF b.b THEN 1 ELSE 0)
      [] a.t = "null" /\ b.t = "null" -> "Equal"
      [] a.t = "null" /\ b.t # "null" -> "Less"
      [] a.t # "null" /\ b.t = "null" -> "Greater"
      [] OTHER -> "Equal"

Reverse(o) == CASE o = "Less" -> "Greater" [] o = "Greater" -> "Less" [] OTHER -> "Equal"

Range(l) == {l[i] : i \in 1..Len(l)}

\* The requirement slice::sort_by puts on its closure: a total order over
\* the elements being sorted (antisymmetric; <, == and > each transitive).
IsTotalOrderOn(S) ==
    /\ \A a, b \in S : cmp(a, b) = Reverse(cmp(b, a))
    /\ \A a, b, c \in S : cmp(a, b) = cmp(b, c) => cmp(a, c) = cmp(a, b)

\* insert_tail: x moves left past every element it compares Less than
RECURSIVE InsertPos(_, _, _)
InsertPos(s, x, i) ==
    IF i = 0 \/ cmp(x, s[i]) # "Less" THEN i + 1 ELSE InsertPos(s, x, i - 1)

\* an insertion that drops an element equal to its left neighbour
InsertSortedDropsEqual(s, x) ==
    LET i == InsertPos(s, x, Len(s))
    IN  IF i > 1 /\ cmp(s[i - 1], x) = "Equal" THEN s
        ELSE SubSeq(s, 1, i - 1) \o <<x>> \o SubSeq(s, i, Len(s))

InsertSorted(s, x) ==
    LET i == InsertPos(s, x, Len(s))
    IN  SubSeq(s, 1, i - 1) \o <<x>> \o SubSeq(s, i, Len(s))

\* insertion_sort_shift_left: the stable sort std runs on a short slice
RECURSIVE InsertionSort(_)
InsertionSort(l) ==
    IF Len(l) = 0 THEN <<>>
    ELSE InsertSorted(InsertionSort(SubSeq(l, 1, Len(l) - 1)), l[Len(l)])

\* merge of two sorted runs: the head of the right run goes first only when
\* it compares Less than the head of the left run
RECURSIVE Merge(_, _)
Merge(left, right) ==
    IF Len(left) = 0 THEN right
    ELSE IF Len(right) = 0 THEN left
    ELSE IF cmp(Head(right), Head(left)) = "Less"
         THEN <<Head(right)>> \o Merge(left, Tail(right))
         ELSE <<Head(left)>> \o Merge(Tail(left), right)

\* the stable sort std runs on a long slice: sorted runs, merged
MergeSorts(l) ==
    {Merge(InsertionSort(SubSeq(l, 1, m)), InsertionSort(SubSeq(l, m + 1, Len(l)))) :
        m \in 1..(Len(l) - 1)}

\* slice::sort_by(cmp).  With a total order it returns the stable sort, the
\* same from the insertion sort and from every merge.  Its contract for any
\* other closure: the call may panic (std reports the order violation it
\* detects), and when it returns the elements are left in an unspecified
\* order: the one the insertion sort leaves (a short slice) or one a merge
\* of sorted runs leaves (a long slice; the lists of the model stand for
\* both).
sort_by(l) ==
    IF IsTotalOrderOn(Range(l))
    THEN {[panic |-> FALSE, v |-> InsertionSort(l)]}
    ELSE {[panic |-> TRUE, v |-> <<>>], [panic |-> FALSE, v |-> InsertionSort(l)]}
            \cup {[panic |-> FALSE, v |-> s] : s \in MergeSorts(l)}

ListSort(inputs, rt) ==
    LET list == unwrap_or(from_value_VecValue(get(inputs, "list")), <<>>)
    IN  {IF s.panic THEN Panicked ELSE Returned("result" :> VList(s.v)) : s \in sort_by(list)}

(***************************************************************************)
(* math.divide                                                             *)
(***************************************************************************)
Abs(x) == IF x < 0 THEN -x ELSE x

RECURSIVE Gcd(_, _)
Gcd(x, y) == IF y = 0 THEN x ELSE Gcd(y, x % y)

\* the fraction n/d in lowest terms with a positive denominator
Frac(n, d) ==
    LET g == Gcd(Abs(n), Abs(d))
        sgn == IF d < 0 THEN -1 ELSE 1
    IN  [n |-> sgn * (n \div g), d |-> sgn * (d \div g)]

\* acc / x on f64, for x # 0
FDiv(acc, x) == Frac(acc.n * x.d, acc.d * x.n)

\* numbers.iter().skip(1).fold(numbers[0], |acc, x| acc / x)
RECURSIVE FoldDiv(_, _, _)
FoldDiv(acc, numbers, i) ==
    IF i > Len(numbers) THEN acc ELSE FoldDiv(FDiv(acc, numbers[i]), numbers, i + 1)

\* math.divide that refuses a zero anywhere among its operands
MathDivideChecksFirst(inputs, rt) ==
    LET numbers == unwrap_or(from_value_VecF64(get(inputs, "numbers")), <<>>) IN
    IF Len(numbers) < 2
    THEN ("result" :> VInt(0)) @@ ("error" :> VStr("need at least 2 numbers"))
    ELSE IF \E i \in 1..Len(numbers) : numbers[i].n = 0
    THEN ("result" :> VInt(0)) @@ ("error" :> VStr("division by zero"))
    ELSE LET quotient == FoldDiv(numbers[1], numbers, 2)
         IN  "result" :> VFloat(quotient.n, quotient.d)

MathDivide(inputs, rt) ==
    LET numbers == unwrap_or(from_value_VecF64(get(inputs, "numbers")), <<>>) IN
    IF Len(numbers) < 2
    THEN ("result" :> VInt(0)) @@ ("error" :> VStr("need at least 2 numbers"))
    ELSE IF \E i \in 2..Len(numbers) : numbers[i].n = 0
    THEN ("result" :> VInt(0)) @@ ("error" :> VStr("division by zero"))
    ELSE LET quotient == FoldDiv(numbers[1], numbers, 2)
         IN  "result" :> VFloat(quotient.n, quotient.d)

(***************************************************************************)
(* math.subtract, math.multiply, math.modulo.  An f64 is the exact         *)
(* fraction n/d: the operands of the model stay far inside the range in    *)
(* which f64 arithmetic neither rounds nor overflows.                      *)
(***************************************************************************)
\* acc - x on f64
FSub(acc, x) == Frac(acc.n * x.d - x.n * acc.d, acc.d * x.d)

\* acc * x on f64
FMul(acc, x) == Frac(acc.n * x.n, acc.d * x.d)

\* x / y rounded toward zero, for integers x and y # 0
Trunc(x, y) ==
    IF (x < 0) # (y < 0) THEN -(Abs(x) \div Abs(y)) ELSE Abs(x) \div Abs(y)

\* a % b on f64, for b # 0: the remainder has the sign of the dividend
FRem(a, b) ==
    LET q == Trunc(a.n * b.d, a.d * b.n)
    IN  Frac(a.n * b.d - q * b.n * a.d, a.d * b.d)

\* numbers.iter().skip(1).fold(numbers[0], |acc, x| acc - x)
RECURSIVE FoldSub(_, _, _)
FoldSub(acc, numbers, i) ==
    IF i > Len(numbers) THEN acc ELSE FoldSub(FSub(acc, numbers[i]), numbers, i + 1)

\* numbers.iter().product(): the fold of * from 1.0
RECURSIVE Product(_, _, _)
Product(acc, numbers, i) ==
    IF i > Len(numbers) THEN acc ELSE Product(FMul(acc, numbers[i]), numbers, i + 1)

MathSubtract(inputs, rt) ==
    LET numbers == unwrap_or(from_value_VecF64(get(inputs, "numbers")), <<>>) IN
    IF Len(numbers) = 0
    THEN ("result" :> VInt(0)) @@ ("error" :> VStr("numbers must be non-empty"))
    ELSE LET difference == FoldSub(numbers[1], numbers, 2)
         IN  "result" :> VFloat(difference.n, difference.d)

MathMultiply(inputs, rt) ==
    LET numbers == unwrap_or(from_value_VecF64(get(inputs, "numbers")), <<>>) IN
    IF Len(numbers) = 0
    THEN "result" :> VInt(0)
    ELSE LET product == Product([n |-> 1, d |-> 1], numbers, 1)
         IN  "result" :> VFloat(product.n, product.d)

MathModulo(inputs, rt) ==
    LET a == unwrap_or(from_value_f64(get(inputs, "a")), [n |-> 0, d |-> 1])
        b == unwrap_or(from_value_f64(get(inputs, "b")), [n |-> 1, d |-> 1])
    IN  IF b.n = 0
        THEN ("result" :> VInt(0)) @@ ("error" :> VStr("division by zero"))
        ELSE LET r == FRem(a, b) IN "result" :> VFloat(r.n, r.d)

(***************************************************************************)
(* list.at, list.slice, string.substring                                   *)
(***************************************************************************)
\* i64::max, i64::min
max(x, y) == IF x >= y THEN x ELSE y
min(x, y) == IF x <= y THEN x ELSE y

\* list.at that clamps a negative index that reaches before the first element
ListAtClampsNegative(inputs, rt) ==
    LET list == unwrap_or(from_value_VecValue(get(inputs, "list")), <<>>)
        index == unwrap_or(from_value_i64(get(inputs, "index")), 0)
        len == Len(list)
        idx == IF index < 0 THEN max(len + index, 0) ELSE index
        value == IF idx >= 0 /\ idx < Len(list) THEN list[idx + 1] ELSE VNull
    IN  "result" :> value

\* list.at that reports an index that is not an integer
ListAtStrictIndex(inputs, rt) ==
    LET list == unwrap_or(from_value_VecValue(get(inputs, "list")), <<>>)
        index == from_value_i64(get(inputs, "index"))
        idx == IF index.some /\ index.v < 0 THEN Len(list) + index.v ELSE unwrap_or(index, 0)
        value == IF idx >= 0 /\ idx < Len(list) THEN list[idx + 1] ELSE VNull
    IN  IF "index" \in DOMAIN inputs /\ ~index.some
        THEN ("result" :> VNull) @@ ("error" :> VStr("index must be an integer"))
        ELSE "result" :> value

ListAt(inputs, rt) ==
    LET list == unwrap_or(from_value_VecValue(get(inputs, "list")), <<>>)
        index == unwrap_or(from_value_i64(get(inputs, "index")), 0)
        len == Len(list)
        idx == IF index < 0 THEN len + index ELSE index
        value == IF idx >= 0 /\ idx < Len(list) THEN list[idx + 1] ELSE VNull
    IN  "result" :> value

\* start_idx of list.slice and string.substring
start_idx(start, len) == IF start < 0 THEN max(len + start, 0) ELSE min(start, len)

\* end_idx of list.slice and string.substring
end_idx(end, len) ==
    IF end.some
    THEN IF end.v < 0 THEN max(len + end.v, 0) ELSE min(end.v, len)
    ELSE len

\* list.slice that takes a negative end for the start of the list
ListSliceNegativeEndIsZero(inputs, rt) ==
    LET list == unwrap_or(from_value_VecValue(get(inputs, "list")), <<>>)
        start == unwrap_or(from_value_i64(get(inputs, "start")), 0)
        end == from_value_i64(get(inputs, "end"))
        len == Len(list)
        s == start_idx(start, len)
        e == IF end.some /\ end.v < 0 THEN 0 ELSE end_idx(end, len)
        sliced == IF s < e THEN SubSeq(list, s + 1, e) ELSE <<>>
    IN  "result" :> VList(sliced)

ListSlice(inputs, rt) ==
    LET list == unwrap_or(from_value_VecValue(get(inputs, "list")), <<>>)
        start == unwrap_or(from_value_i64(get(inputs, "start")), 0)
        end == from_value_i64(get(inputs, "end"))
        len == Len(list)
        s == start_idx(start, len)
        e == end_idx(end, len)
        sliced == IF s < e THEN SubSeq(list, s + 1, e) ELSE <<>>
    IN  "result" :> VList(sliced)

\* string.substring that takes a negative start for the start of the string
StringSubstringNegativeStartIsZero(inputs, rt) ==
    LET string == unwrap_or(from_value_String(get(inputs, "string")), "")
        start == unwrap_or(from_value_i64(get(inputs, "start")), 0)
        end == from_value_i64(get(inputs, "end"))
        len == Len(string)
        s == IF start < 0 THEN 0 ELSE start_idx(start, len)
        e == end_idx(end, len)
        substring == IF s < e THEN SubSeq(string, s + 1, e) ELSE ""
    IN  "result" :> VStr(substring)

\* string.chars() is the sequence of the string's characters
StringSubstring(inputs, rt) ==
    LET string == unwrap_or(from_value_String(get(inputs, "string")), "")
        start == unwrap_or(from_value_i64(get(inputs, "start")), 0)
        end == from_value_i64(get(inputs, "end"))
        len == Len(string)
        s == start_idx(start, len)
        e == end_idx(end, len)
        substring == IF s < e THEN SubSeq(string, s + 1, e) ELSE ""
    IN  "result" :> VStr(substring)

(***************************************************************************)
(* convert.to_boolean and the logic nodes                                  *)
(***************************************************************************)
\* char::to_lowercase on the characters used in the model
LowerChar ==
    ("T" :> "t") @@ ("R" :> "r") @@ ("U" :> "u") @@ ("E" :> "e") @@ ("Y" :> "y")
        @@ ("S" :> "s") @@ ("N" :> "n") @@ ("O" :> "o")

\* str::to_lowercase
RECURSIVE to_lowercase(_)
to_lowercase(s) ==
    IF Len(s) = 0 THEN ""
    ELSE (IF Head(s) \in DOMAIN LowerChar THEN LowerChar[Head(s)] ELSE Head(s))
            \o to_lowercase(Tail(s))

\* the match of convert.to_boolean on a Value: strict truthiness
StrictBool(value) ==
    CASE value.t = "bool" -> value.b
      [] value.t = "num" -> value.n # 0
      [] value.t = "str" ->
            LET lower == to_lowercase(value.s)
            IN  lower = "true" \/ lower = "1" \/ lower = "yes"
      [] value.t = "null" -> FALSE
      [] value.t = "list" -> Len(value.l) # 0
      [] value.t = "obj" -> DOMAIN value.o # {}

\* convert.to_boolean that reads a string the way the logic nodes do
ConvertToBooleanLoose(inputs, rt) ==
    LET value == unwrap_or(get(inputs, "value"), VNull)
        result == IF value.t = "str" THEN Len(value.s) # 0 ELSE StrictBool(value)
    IN  "result" :> VBool(result)

ConvertToBoolean(inputs, rt) ==
    LET value == unwrap_or(get(inputs, "value"), VNull)
    IN  "result" :> VBool(StrictBool(value))

\* to_bool without its arm for lists
to_boolWithoutListArm(v) ==
    CASE v.t = "bool" -> v.b
      [] v.t = "num" -> v.n # 0
      [] v.t = "str" -> Len(v.s) # 0
      [] v.t = "obj" -> DOMAIN v.o # {}
      [] OTHER -> FALSE

\* fn to_bool of logic.not, logic.or and logic.xor: loose truthiness
to_bool(v) ==
    CASE v.t = "bool" -> v.b
      [] v.t = "num" -> v.n # 0
      [] v.t = "str" -> Len(v.s) # 0
      [] v.t = "null" -> FALSE
      [] v.t = "list" -> Len(v.l) # 0
      [] v.t = "obj" -> DOMAIN v.o # {}

LogicNot(inputs, rt) ==
    LET value == unwrap_or(get(inputs, "value"), VNull)
    IN  "result" :> VBool(~to_bool(value))

LogicOr(inputs, rt) ==
    LET values == unwrap_or(from_value_VecValue(get(inputs, "values")), <<>>)
        result == \E i \in 1..Len(values) : to_bool(values[i])
    IN  "result" :> VBool(result)

\* logic.xor that takes an odd number of truthy operands for exactly one
LogicXorParity(inputs, rt) ==
    LET values == unwrap_or(from_value_VecValue(get(inputs, "values")), <<>>)
        true_count == Cardinality({i \in 1..Len(values) : to_bool(values[i])})
    IN  "result" :> VBool(true_count % 2 = 1)

LogicXor(inputs, rt) ==
    LET values == unwrap_or(from_value_VecValue(get(inputs, "values")), <<>>)
        true_count == Cardinality({i \in 1..Len(values) : to_bool(values[i])})
    IN  "result" :> VBool(true_count = 1)

(***************************************************************************)
(* convert.to_list and convert.to_object                                   *)
(***************************************************************************)
\* s.chars().map(|c| Value::String(c.to_string())).collect()
RECURSIVE chars(_)
chars(s) == IF Len(s) = 0 THEN <<>> ELSE <<VStr(Head(s))>> \o chars(Tail(s))

\* convert.to_list that wraps a string like any other scalar
ConvertToListWrapsString(inputs, rt) ==
    LET value == unwrap_or(get(inputs, "value"), VNull)
        result == CASE value.t = "list" -> value.l
                    [] value.t = "null" -> <<>>
                    [] OTHER -> <<value>>
    IN  "result" :> VList(result)

ConvertToList(inputs, rt) ==
    LET value == unwrap_or(get(inputs, "value"), VNull)
        result == CASE value.t = "list" -> value.l
                    [] value.t = "str" -> chars(value.s)
                    [] value.t = "null" -> <<>>
                    [] OTHER -> <<value>>
    IN  "result" :> VList(result)

\* serde_json::Map::insert: a later value replaces an earlier one
insert(obj, key, val) == (key :> val) @@ obj

\* the loop of convert.to_object over the items a[1..i]
RECURSIVE PairsInto(_, _)
PairsInto(a, i) ==
    IF i = 0 THEN EmptyMap
    ELSE LET obj == PairsInto(a, i - 1)
             item == a[i]
         IN  IF item.t = "list" /\ Len(item.l) >= 2 /\ item.l[1].t = "str"
             THEN insert(obj, item.l[1].s, item.l[2])
             ELSE obj

\* convert.to_object that keeps the first value of a repeated key
ConvertToObjectFirstWins(inputs, rt) ==
    LET value == unwrap_or(get(inputs, "value"), VNull)
        rev == IF value.t = "list"
               THEN [i \in 1..Len(value.l) |-> value.l[Len(value.l) + 1 - i]]
               ELSE <<>>
        result == CASE value.t = "obj" -> value
                    [] value.t = "list" -> VObj(PairsInto(rev, Len(rev)))
                    [] OTHER -> VObj(EmptyMap)
    IN  "result" :> result

ConvertToObject(inputs, rt) ==
    LET value == unwrap_or(get(inputs, "value"), VNull)
        result == CASE value.t = "obj" -> value
                    [] value.t = "list" -> VObj(PairsInto(value.l, Len(value.l)))
                    [] OTHER -> VObj(EmptyMap)
    IN  "result" :> result

(***************************************************************************)
(* convert.to_json and convert.parse_json: serde_json's writer and parser  *)
(* on JSON text, one token a step.  The recursion of Value::serialize and  *)
(* of the Deserializer is an explicit stack: `work` holds what the writer  *)
(* has still to write, `stack` the lists and objects the parser is inside. *)
(* The error text of a parse failure is kept without its position suffix   *)
(* and with its punctuation spelled out.                                   *)
(***************************************************************************)
\* inputs.get(key).and_then(|v| serde_json::from_value::<bool>(v).ok())
from_value_bool(o) == IF o.some /\ o.v.t = "bool" THEN Some(o.v.b) ELSE None

\* the decimal digit of n in 0..9
Digit(n) == SubSeq("0123456789", n + 1, n + 1)

\* itoa: an integer in decimal
RECURSIVE itoa(_)
itoa(n) ==
    IF n < 0 THEN "-" \o itoa(0 - n)
    ELSE IF n < 10 THEN Digit(n)
    ELSE itoa(n \div 10) \o Digit(n % 10)

\* the decimal digits of r/d for 0 <= r < d, d a power of two
RECURSIVE FracDigits(_, _)
FracDigits(r, d) ==
    IF r = 0 THEN "" ELSE Digit((r * 10) \div d) \o FracDigits((r * 10) % d, d)

\* ryu: the shortest decimal that reads back as the f64 n/d, which for the
\* short binary fractions of the model is its exact expansion
ryu(n, d) ==
    LET a == Abs(n)
    IN  (IF n < 0 THEN "-" ELSE "") \o itoa(a \div d) \o "."
            \o (IF a % d = 0 THEN "0" ELSE FracDigits(a % d, d))

\* format_escaped_str_contents
RECURSIVE escaped(_)
escaped(s) ==
    IF Len(s) = 0 THEN ""
    ELSE LET c == Head(s)
         IN  (CASE c = "\"" -> "\\\""
                [] c = "\\" -> "\\\\"
                [] c = "\n" -> "\\n"
                [] c = "\t" -> "\\t"
                [] OTHER -> c) \o escaped(Tail(s))

\* the keys of a serde_json::Map (a BTreeMap) in the order it iterates
RECURSIVE KeysInOrder(_)
KeysInOrder(S) ==
    IF S = {} THEN <<>>
    ELSE LET k == CHOOSE x \in S : \A y \in S : StrCmp(x, y) # "Greater"
         IN  <<k>> \o KeysInOrder(S \ {k})

\* level times the indent of PrettyFormatter
RECURSIVE indent(_)
indent(level) == IF level = 0 THEN "" ELSE "  " \o indent(level - 1)

\* what the writer has to write: a closing text, or a value at a nesting
\* level with the text that goes before it
Lit(s) == [k |-> "lit", s |-> s]
Val(before, v, level) == [k |-> "val", before |-> before, v |-> v, level |-> level]

\* Formatter::begin_array_value / begin_object_key
begin_value(i, pretty, level) ==
    (IF i > 1 THEN "," ELSE "") \o (IF pretty THEN "\n" \o indent(level) ELSE "")

\* Formatter::end_array / end_object, before the closing bracket
end_values(pretty, level) == IF pretty THEN "\n" \o indent(level) ELSE ""

\* Value::serialize of a scalar
scalar_text(v) ==
    CASE v.t = "null" -> "null"
      [] v.t = "bool" -> IF v.b THEN "true" ELSE "false"
      [] v.t = "num" -> IF v.k = "int" THEN itoa(v.n) ELSE ryu(v.n, v.d)
      [] v.t = "str" -> "\"" \o escaped(v.s) \o "\""

\* Value::serialize of a non-empty list or object at nesting level `level`,
\* after its opening bracket: its elements, each with its separator and
\* key, and its closing bracket
serialize(v, pretty, level) ==
    IF v.t = "list"
    THEN [i \in 1..Len(v.l) |-> Val(begin_value(i, pretty, level + 1), v.l[i], level + 1)]
            \o <<Lit(end_values(pretty, level) \o "]")>>
    ELSE LET keys == KeysInOrder(DOMAIN v.o) IN
         [i \in 1..Len(keys) |->
             Val(begin_value(i, pretty, level + 1) \o "\"" \o escaped(keys[i]) \o "\":"
                    \o (IF pretty THEN " " ELSE ""),
                 v.o[keys[i]], level + 1)]
            \o <<Lit(end_values(pretty, level) \o "}")>>

\* the writer of serde_json::to_string (pretty = FALSE) or to_string_pretty
\* (pretty = TRUE) about to write value
to_string(value) == [phase |-> "write", buf |-> "", work |-> <<Val("", value, 0)>>]

\* one step of the writer: a closing bracket, a scalar, an empty list or
\* object, or the opening bracket of a list or an object
write(j, pretty) ==
    LET it == Head(j.work)
        rest == Tail(j.work)
    IN  IF it.k = "lit" THEN [j EXCEPT !.buf = @ \o it.s, !.work = rest]
        ELSE IF it.v.t = "list" /\ Len(it.v.l) = 0
        THEN [j EXCEPT !.buf = @ \o it.before \o "[]", !.work = rest]
        ELSE IF it.v.t = "obj" /\ DOMAIN it.v.o = {}
        THEN [j EXCEPT !.buf = @ \o it.before \o "{}", !.work = rest]
        ELSE IF it.v.t \in {"list", "obj"}
        THEN [j EXCEPT !.buf = @ \o it.before \o (IF it.v.t = "list" THEN "[" ELSE "{"),
                       !.work = serialize(it.v, pretty, it.level) \o rest]
        ELSE [j EXCEPT !.buf = @ \o it.before \o scalar_text(it.v), !.work = rest]

\* Deserializer::remaining_depth at the start of a parse
RecursionLimit == 128

\* the result of a parsing step: a value and the text after it, or an error
Ok(v, rest) == [ok |-> TRUE, v |-> v, rest |-> rest]
Err(code) == [ok |-> FALSE, code |-> code]

\* Deserializer::parse_whitespace
RECURSIVE parse_whitespace(_)
parse_whitespace(s) ==
    IF Len(s) > 0 /\ Head(s) \in {" ", "\n", "\t", "\r"}
    THEN parse_whitespace(Tail(s)) ELSE s

\* Deserializer::parse_ident
parse_ident(s, word, v) ==
    IF Len(s) >= Len(word) /\ SubSeq(s, 1, Len(word)) = word
    THEN Ok(v, SubSeq(s, Len(word) + 1, Len(s)))
    ELSE IF Len(s) < Len(word) /\ SubSeq(word, 1, Len(s)) = s
         THEN Err("EOF while parsing a value")
         ELSE Err("expected ident")

IsDigit(c) == \E n \in 0..9 : Digit(n) = c
DigitVal(c) == CHOOSE n \in 0..9 : Digit(n) = c

\* a run of decimal digits: its value, how many there were, and the rest
RECURSIVE parse_digits(_, _, _)
parse_digits(s, acc, cnt) ==
    IF Len(s) > 0 /\ IsDigit(Head(s))
    THEN parse_digits(Tail(s), acc * 10 + DigitVal(Head(s)), cnt + 1)
    ELSE [n |-> acc, cnt |-> cnt, rest |-> s]

RECURSIVE Pow10(_)
Pow10(e) == IF e = 0 THEN 1 ELSE 10 * Pow10(e - 1)

\* Deserializer::f64_from_parts: significand * 10^exponent as an f64
f64_from_parts(negative, significand, exponent) ==
    LET f == IF exponent < 0 THEN Frac(significand, Pow10(0 - exponent))
             ELSE Frac(significand * Pow10(exponent), 1)
    IN  VFloat(IF negative THEN 0 - f.n ELSE f.n, f.d)

\* Deserializer::parse_exponent, s starting after the digits read so far:
\* significand is their value and scale how many of them follow the point;
\* float says whether the number is an f64 without an exponent already
parse_exponent(negative, significand, scale, float, s) ==
    IF Len(s) > 0 /\ Head(s) \in {"e", "E"}
    THEN LET signed == Len(s) > 1 /\ Head(Tail(s)) \in {"-", "+"}
             exp == parse_digits(IF signed THEN Tail(Tail(s)) ELSE Tail(s), 0, 0)
         IN  IF exp.cnt = 0 THEN Err("invalid number")
             ELSE Ok(f64_from_parts(negative, significand,
                                    (IF signed /\ Head(Tail(s)) = "-" THEN 0 - exp.n
                                     ELSE exp.n) - scale),
                     exp.rest)
    ELSE IF float THEN Ok(f64_from_parts(negative, significand, 0 - scale), s)
    ELSE Ok(VInt(IF negative THEN 0 - significand ELSE significand), s)

\* Deserializer::parse_decimal, s starting after the integer digits: without
\* fraction and exponent the number stays an integer, unless it is -0
parse_decimal(negative, int, s) ==
    IF Len(s) > 0 /\ Head(s) = "."
    THEN LET frac == parse_digits(Tail(s), 0, 0)
         IN  IF frac.cnt = 0 THEN Err("invalid number")
             ELSE parse_exponent(negative, int * Pow10(frac.cnt) + frac.n, frac.cnt, TRUE,
                                 frac.rest)
    ELSE parse_exponent(negative, int, 0, negative /\ int = 0, s)

\* Deserializer::parse_integer, s starting after an optional minus sign
parse_number(s, negative) ==
    LET int == parse_digits(s, 0, 0)
    IN  IF int.cnt = 0 THEN Err("invalid number")
        ELSE IF int.cnt > 1 /\ Head(s) = "0" THEN Err("invalid number")
        ELSE parse_decimal(negative, int.n, int.rest)

\* Read::parse_str, s starting after the opening quote
RECURSIVE parse_str(_, _)
parse_str(s, acc) ==
    IF Len(s) = 0 THEN Err("EOF while parsing a string")
    ELSE LET c == Head(s)
         IN  CASE c = "\"" -> Ok(acc, Tail(s))
               [] c = "\\" ->
                    IF Len(s) < 2 THEN Err("EOF while parsing a string")
                    ELSE LET e == Head(Tail(s))
                             rest == Tail(Tail(s))
                         IN  CASE e \in {"\"", "\\", "/"} -> parse_str(rest, acc \o e)
                               [] e = "n" -> parse_str(rest, acc \o "\n")
                               [] e = "t" -> parse_str(rest, acc \o "\t")
                               [] OTHER -> Err("invalid escape")
               [] c \in {"\n", "\t", "\r"} ->
                    Err("control character (\\u0000-\\u001F) found while parsing a string")
               [] OTHER -> parse_str(Tail(s), acc \o c)

\* a parsing step: it goes on in parser state j, or ends the parse
Continue(j) == [done |-> FALSE, j |-> j]
Done(value) == [done |-> TRUE, out |-> "result" :> value]
Fail(code) == [done |-> TRUE, out |-> ("result" :> VNull) @@ ("error" :> VStr(code))]

\* the parser of serde_json::from_str::<Value> at the start of text s
from_str(s) ==
    [phase |-> "parse", text |-> s, stack |-> <<>>, depth |-> RecursionLimit, mode |-> "value"]

\* a value v is complete with text `rest` left: it is the result once
\* Deserializer::end finds nothing more, or it goes into the list or the
\* object the parser is inside
deliver(j, v, rest) ==
    IF Len(j.stack) = 0
    THEN IF Len(parse_whitespace(rest)) = 0 THEN Done(v) ELSE Fail("trailing characters")
    ELSE LET top == Head(j.stack)
             acc == IF top.kind = "seq" THEN Append(top.acc, v) ELSE insert(top.acc, top.key, v)
         IN  Continue([j EXCEPT !.text = rest, !.mode = "next",
                                !.stack = <<[top EXCEPT !.acc = acc]>> \o Tail(j.stack)])

\* Deserializer::deserialize_any at the start of a value; check_recursion!
\* decrements remaining_depth on entering a list or an object and refuses
\* to let it reach 0
parse_value(j) ==
    LET t == parse_whitespace(j.text) IN
    IF Len(t) = 0 THEN Fail("EOF while parsing a value")
    ELSE LET c == Head(t)
             scalar == CASE c = "n" -> parse_ident(t, "null", VNull)
                         [] c = "t" -> parse_ident(t, "true", VBool(TRUE))
                         [] c = "f" -> parse_ident(t, "false", VBool(FALSE))
                         [] c = "-" -> parse_number(Tail(t), TRUE)
                         [] IsDigit(c) -> parse_number(t, FALSE)
                         [] c = "\"" ->
                              LET r == parse_str(Tail(t), "")
                              IN  IF r.ok THEN Ok(VStr(r.v), r.rest) ELSE r
                         [] OTHER -> Err("expected value")
             inside(kind, acc) ==
                 IF j.depth - 1 = 0 THEN Fail("recursion limit exceeded")
                 ELSE Continue([j EXCEPT !.text = Tail(t), !.mode = "first",
                                         !.depth = @ - 1,
                                         !.stack = <<[kind |-> kind, acc |-> acc, key |-> ""]>> \o @])
         IN  CASE c = "[" -> inside("seq", <<>>)
               [] c = "{" -> inside("map", EmptyMap)
               [] OTHER -> IF scalar.ok THEN deliver(j, scalar.v, scalar.rest)
                           ELSE Fail(scalar.code)

\* MapAccess::next_key_seed and next_value_seed: a string key, a colon, and
\* the start of the value
parse_member(j, x) ==
    IF Len(x) = 0 THEN Fail("EOF while parsing an object")
    ELSE IF Head(x) # "\"" THEN Fail("key must be a string")
    ELSE LET k == parse_str(Tail(x), "")
             colon == IF k.ok THEN parse_whitespace(k.rest) ELSE ""
         IN  IF ~k.ok THEN Fail(k.code)
             ELSE IF Len(colon) = 0 THEN Fail("EOF while parsing an object")
             ELSE IF Head(colon) # ":" THEN Fail("expected colon")
             ELSE parse_value([j EXCEPT !.text = Tail(colon),
                                        !.stack = <<[Head(j.stack) EXCEPT !.key = k.v]>>
                                                     \o Tail(j.stack)])

\* one step of the parser: the start of the text, or SeqAccess /  MapAccess
\* before the first element (mode "first") or after an element ("next")
parse(j) ==
    IF j.mode = "value" THEN parse_value(j)
    ELSE
    LET t == parse_whitespace(j.text)
        top == Head(j.stack)
        seq == top.kind = "seq"
        close == IF seq THEN "]" ELSE "}"
        element(x) == IF seq THEN parse_value([j EXCEPT !.text = x]) ELSE parse_member(j, x)
    IN  IF Len(t) = 0
        THEN Fail(IF seq THEN "EOF while parsing a list" ELSE "EOF while parsing an object")
        ELSE IF Head(t) = close
        THEN deliver([j EXCEPT !.stack = Tail(@), !.depth = @ + 1],
                     IF seq THEN VList(top.acc) ELSE VObj(top.acc), Tail(t))
        ELSE IF j.mode = "first" THEN element(t)
        ELSE IF Head(t) = ","
             THEN LET u == parse_whitespace(Tail(t))
                  IN  IF Len(u) > 0 /\ Head(u) = close THEN Fail("trailing comma")
                      ELSE element(u)
             ELSE Fail(IF seq THEN "expected comma or closing bracket"
                       ELSE "expected comma or closing brace")

(***************************************************************************)
(* The node catalogue: node type -> the outcomes of execute(inputs, rt).   *)
(***************************************************************************)
VarNodes == {"var.get", "var.set", "var.delete", "var.exists", "var.keys", "var.clear"}
MathNodes == {"math.divide", "math.subtract", "math.multiply", "math.modulo"}
ListNodes == {"list.sort", "list.at", "list.slice"}
LogicNodes == {"logic.not", "logic.or", "logic.xor"}
ConvertNodes == {"convert.to_list", "convert.to_object"}
Nodes ==
    VarNodes \cup MathNodes \cup ListNodes \cup LogicNodes
        \cup {"string.substring", "convert.to_boolean"} \cup ConvertNodes

execute(node, inputs, rt) ==
    CASE node = "var.get" -> {Returned(VarGet(inputs, rt))}
      [] node = "var.set" -> {Returned(VarSet(inputs, rt))}
      [] node = "var.delete" -> {Returned(VarDelete(inputs, rt))}
      [] node = "var.exists" -> {Returned(VarExists(inputs, rt))}
      [] node = "var.keys" -> {Returned(VarKeys(inputs, rt))}
      [] node = "var.clear" -> {Returned(VarClear(inputs, rt))}
      [] node = "list.sort" -> ListSort(inputs, rt)
      [] node = "math.divide" -> {Returned(MathDivide(inputs, rt))}
      [] node = "math.subtract" -> {Returned(MathSubtract(inputs, rt))}
      [] node = "math.multiply" -> {Returned(MathMultiply(inputs, rt))}
      [] node = "math.modulo" -> {Returned(MathModulo(inputs, rt))}
      [] node = "list.at" -> {Returned(ListAt(inputs, rt))}
      [] node = "list.slice" -> {Returned(ListSlice(inputs, rt))}
      [] node = "string.substring" -> {Returned(StringSubstring(inputs, rt))}
      [] node = "convert.to_boolean" -> {Returned(ConvertToBoolean(inputs, rt))}
      [] node = "logic.not" -> {Returned(LogicNot(inputs, rt))}
      [] node = "logic.or" -> {Returned(LogicOr(inputs, rt))}
      [] node = "logic.xor" -> {Returned(LogicXor(inputs, rt))}
      [] node = "convert.to_list" -> {Returned(ConvertToList(inputs, rt))}
      [] node = "convert.to_object" -> {Returned(ConvertToObject(inputs, rt))}

\* the input keys a node deserializes with serde_json::from_value, and the
\* type it asks for; every other input is taken as the Value it is
Typed(n) ==
    CASE n \in {"var.get", "var.set", "var.delete", "var.exists"} -> "key" :> "String"
      [] n \in {"list.sort"} -> "list" :> "Vec<Value>"
      [] n \in {"math.divide", "math.subtract", "math.multiply"} -> "numbers" :> "Vec<f64>"
      [] n = "math.modulo" -> ("a" :> "f64") @@ ("b" :> "f64")
      [] n = "list.at" -> ("list" :> "Vec<Value>") @@ ("index" :> "i64")
      [] n = "list.slice" ->
            ("list" :> "Vec<Value>") @@ ("start" :> "i64") @@ ("end" :> "i64")
      [] n = "string.substring" ->
            ("string" :> "String") @@ ("start" :> "i64") @@ ("end" :> "i64")
      [] n \in {"logic.or", "logic.xor"} -> "values" :> "Vec<Value>"
      [] OTHER -> EmptyMap

\* serde_json::from_value::<ty>(v).ok() is Some
Deserializes(ty, v) ==
    CASE ty = "String" -> from_value_String(Some(v)).some
      [] ty = "Vec<Value>" -> from_value_VecValue(Some(v)).some
      [] ty = "Vec<f64>" -> from_value_VecF64(Some(v)).some
      [] ty = "i64" -> from_value_i64(Some(v)).some
      [] ty = "f64" -> from_value_f64(Some(v)).some

\* the inputs with every key dropped whose value fails to deserialize
Absorbed(n, i) ==
    LET kept == {k \in DOMAIN i : k \in DOMAIN Typed(n) => Deserializes(Typed(n)[k], i[k])}
    IN  [k \in kept |-> i[k]]

(***************************************************************************)
(* State: the orchestrator's store, and per invocation slot the call in    *)
(* progress.                                                               *)
(***************************************************************************)
VARIABLES
    store,     \* Runtime.store: HashMap<String, Value>, its content
    order,     \* the order in which the store's HashMap iterates
    pc,        \* per slot: "idle", "called", "returned", "panicked"
    node,      \* per slot: the node type being invoked
    inputs,    \* per slot: the inputs mapping handed to execute
    rt,        \* per slot: what the runtime argument refers to
    out,       \* per slot: the output mapping execute returned
    alone,     \* per slot: the outcomes of the call on the arguments as they were at the call
    hist,      \* an earlier invocation the orchestrator kept: node, inputs, snapshot, output
    json,      \* per slot: the JSON writer or parser of a convert.to_json / parse_json call
    written    \* per key: the value of the last var.set call whose intent was applied
               \* and that no applied delete or clear intent has removed since

vars == <<store, order, pc, node, inputs, rt, out, alone, hist, json, written>>

\* values handed to a node under the input "key"
KeyVals == {VStr(k) : k \in Keys} \cup {VInt(1)}

\* the mappings that have key k absent or bound to a value of S
Opt(k, S) == {EmptyMap} \cup {k :> v : v \in S}

SortLists ==
    { <<VInt(2), VInt(1)>>, <<VNull, VInt(1), VNull>>, <<VInt(2), VStr("a"), VInt(1)>> }

DivideLists ==
    { <<VInt(6)>>, <<VInt(6), VInt(4)>>, <<VInt(6), VInt(0)>> }

InputsFor(n) ==
    CASE n = "var.get" ->
            {a @@ b : a \in Opt("key", KeyVals), b \in Opt("default", {VStr("d")})}
      [] n = "var.set" ->
            {a @@ b : a \in Opt("key", KeyVals), b \in Opt("value", {VInt(1)})}
      [] n \in {"var.delete", "var.exists"} -> Opt("key", KeyVals)
      [] n \in {"var.keys", "var.clear"} -> Opt("key", {VStr("a")})
      [] n = "list.sort" -> Opt("list", {VInt(1)} \cup {VList(l) : l \in SortLists})
      [] n = "math.divide" -> Opt("numbers", {VStr("d")} \cup {VList(l) : l \in DivideLists})
      [] n \in {"math.subtract", "math.multiply"} ->
            Opt("numbers", {VStr("d"), VList(<<VInt(6), VStr("d")>>), VList(<<VInt(6), VInt(4)>>)})
      [] n = "math.modulo" ->
            {a @@ b : a \in Opt("a", {VStr("d"), VInt(6)}),
                      b \in Opt("b", {VStr("d"), VInt(4), VInt(0)})}
      [] n = "list.at" ->
            {a @@ b : a \in Opt("list", {VInt(1), VList(<<VInt(2), VInt(1)>>)}),
                      b \in Opt("index", {VStr("d"), VFloat(1, 1), VInt(1)})}
      [] n = "list.slice" ->
            {a @@ b : a \in Opt("list", {VList(<<VInt(2), VInt(1)>>)}),
                      b \in Opt("end", {VStr("d"), VInt(1)})}
      [] n = "string.substring" ->
            {a @@ b : a \in Opt("string", {VInt(1), VStr("ab")}),
                      b \in Opt("start", {VStr("d"), VInt(1)})}
      [] n \in {"convert.to_boolean", "logic.not"} -> Opt("value", {VInt(1), VStr("")})
      [] n \in {"logic.or", "logic.xor"} ->
            Opt("values", {VInt(1), VList(<<VInt(1), VStr("a")>>)})
      [] n = "convert.to_list" -> Opt("value", {VInt(1), VStr("ab")})
      [] n = "convert.to_object" ->
            Opt("value", {VInt(1), VList(<<VList(<<VStr("a"), VInt(1)>>)>>)})

\* the nodes that never look at the runtime
PureNodes == Nodes \ VarNodes

\* the sequences over S of length at most n
SeqsUpTo(S, n) == UNION {[1..m -> S] : m \in 0..n}

\* <<1, ..., n>> as a list of Values, and the first n characters of a string
Iota(n) == [i \in 1..n |-> VInt(i)]
Prefix(n) == SubSeq("abcdefgh", 1, n)

\* indexes and bounds reaching past both ends of every list of the model
Indexes == {VInt(i) : i \in (0 - MaxLen - 2)..(MaxLen + 2)}

SortElems ==
    {VNull, VInt(1), VFloat(1, 1), VInt(2), VStr(""), VStr("a"), VStr("ab"), VStr("b"),
     VBool(FALSE), VBool(TRUE)}

\* lists that mix null with elements the closure orders inconsistently
MixedLists ==
    { <<VNull, VInt(2), VNull, VInt(1)>>, <<VInt(2), VStr("a"), VNull, VInt(1)>>,
      <<VInt(2), VStr("a"), VInt(1), VNull>>, <<VInt(2), VInt(0 - 4), VFloat(1, 2), VInt(1)>> }

NumElems == {VInt(0), VFloat(0, 1), VInt(6), VInt(0 - 4), VFloat(1, 2)}

TruthElems ==
    {VBool(TRUE), VBool(FALSE), VInt(0), VInt(1), VStr(""), VStr("false"), VNull}

TruthVals ==
    {VBool(TRUE), VBool(FALSE), VNull}
        \cup {VInt(0), VInt(1), VInt(0 - 1), VFloat(0, 1), VFloat(1, 2)}
        \cup {VStr(x) : x \in {"true", "TRUE", "True", "1", "yes", "YES", "yEs",
                               "false", "no", "", "0", "on", "y", "truee"}}
        \cup {VList(<<>>), VList(<<VNull>>), VList(<<VBool(FALSE)>>)}
        \cup {VObj(EmptyMap), VObj("a" :> VNull)}

\* one value of every variant but the string and the list
Scalars ==
    {VNull, VBool(TRUE), VBool(FALSE), VInt(1), VInt(0), VFloat(1, 2),
     VObj(EmptyMap), VObj("a" :> VInt(1))}

\* values handed to convert.to_list
ListVals ==
    Scalars \cup {VStr(Prefix(m)) : m \in 0..MaxLen} \cup {VStr("aa")}
        \cup {VList(l) : l \in SeqsUpTo({VNull, VStr("ab"), VList(<<>>)}, 2)}

\* list elements handed to convert.to_object: pairs, and what it skips
PairElems ==
    {VInt(1), VStr("a"), VList(<<>>), VList(<<VStr("a")>>),
     VList(<<VStr("a"), VInt(1)>>), VList(<<VStr("a"), VInt(2)>>),
     VList(<<VStr("b"), VInt(1)>>), VList(<<VInt(1), VInt(2)>>),
     VList(<<VStr("b"), VNull, VInt(3)>>)}

\* the inputs the pure nodes are checked on
PureInputsFor(n) ==
    CASE n = "list.sort" ->
            Opt("list", {VInt(1)} \cup {VList(l) : l \in SeqsUpTo(SortElems, MaxLen) \cup MixedLists})
      [] n \in {"math.divide", "math.subtract", "math.multiply"} ->
            Opt("numbers", {VStr("d"), VList(<<VInt(6), VStr("d")>>)}
                              \cup {VList(l) : l \in SeqsUpTo(NumElems, MaxLen)})
      [] n = "math.modulo" ->
            {a @@ b : a \in Opt("a", {VStr("d"), VInt(7), VInt(0 - 7), VFloat(15, 2)}),
                      b \in Opt("b", {VStr("d"), VInt(2), VInt(0 - 2), VInt(0), VFloat(0, 1)})}
      [] n = "list.at" ->
            {a @@ b : a \in Opt("list", {VStr("ab")} \cup {VList(Iota(m)) : m \in 0..MaxLen}),
                      b \in Opt("index", {VStr("d"), VFloat(1, 1)} \cup Indexes)}
      [] n = "list.slice" ->
            {a @@ b @@ c : a \in Opt("list", {VList(Iota(m)) : m \in 0..MaxLen}),
                           b \in Opt("start", {VFloat(1, 1)} \cup Indexes),
                           c \in Opt("end", {VFloat(1, 1)} \cup Indexes)}
      [] n = "string.substring" ->
            {a @@ b @@ c : a \in Opt("string", {VStr(Prefix(m)) : m \in 0..MaxLen}),
                           b \in Opt("start", {VFloat(1, 1)} \cup Indexes),
                           c \in Opt("end", {VFloat(1, 1)} \cup Indexes)}
      [] n \in {"convert.to_boolean", "logic.not"} -> Opt("value", TruthVals)
      [] n \in {"logic.or", "logic.xor"} ->
            Opt("values", {VInt(1)} \cup {VList(l) : l \in SeqsUpTo(TruthElems, MaxLen)})
      [] n = "convert.to_list" -> Opt("value", ListVals)
      [] n = "convert.to_object" ->
            Opt("value", Scalars \cup {VStr("ab")}
                            \cup {VList(l) : l \in SeqsUpTo(PairElems, MaxLen)})

\* the nodes of a running workflow that are given the store, and their inputs
SharedNodes == {"var.get", "var.set", "var.delete", "var.keys", "var.clear", "list.sort"}

SharedInputsFor(n) ==
    CASE n \in {"var.get", "var.delete", "var.exists"} -> {"key" :> VStr(k) : k \in Keys}
      [] n = "var.set" -> {("key" :> VStr(k)) @@ ("value" :> VInt(1)) : k \in Keys}
      [] n \in {"var.keys", "var.clear"} -> {EmptyMap}
      [] n = "list.sort" -> {"list" :> VList(<<VInt(2), VInt(1)>>)}

RtKinds == {"none", "other", "store"}

\* what Option<&dyn Any> of kind k refers to while the call is running
View(k) == IF k = "store" THEN RtStore(store, order) ELSE [kind |-> k]

\* a slot holds a shared borrow of the store for the duration of its call
Borrowed == \E q \in Procs : pc[q] = "called" /\ rt[q] = "store"

NoHist == [node |-> "none"]

NoJson == [phase |-> "none"]

Init ==
    /\ store = EmptyMap
    /\ order = <<>>
    /\ pc = [p \in Procs |-> "idle"]
    /\ node = [p \in Procs |-> "none"]
    /\ inputs = [p \in Procs |-> EmptyMap]
    /\ rt = [p \in Procs |-> "none"]
    /\ out = [p \in Procs |-> EmptyMap]
    /\ alone = [p \in Procs |-> {}]
    /\ hist = NoHist
    /\ json = [p \in Procs |-> NoJson]
    /\ written = EmptyMap

\* the input "key" of slot p deserializes to a String
KeyIsString(p) == "key" \in DOMAIN inputs[p] /\ inputs[p]["key"].t = "str"

\* the value under input k of slot p, null when absent
InputOrNull(p, k) == IF k \in DOMAIN inputs[p] THEN inputs[p][k] ELSE VNull

\* node n is invoked in slot p: n.execute(i, runtime of kind k)
Invoke(p, n, i, k) ==
    /\ pc[p] = "idle"
    /\ pc' = [pc EXCEPT ![p] = "called"]
    /\ node' = [node EXCEPT ![p] = n]
    /\ inputs' = [inputs EXCEPT ![p] = i]
    /\ rt' = [rt EXCEPT ![p] = k]
    /\ alone' = [alone EXCEPT ![p] = execute(n, i, View(k))]
    /\ UNCHANGED <<store, order, out, hist, json, written>>

\* the orchestrator invokes a node, with or without a runtime
Call(p) ==
    /\ pc[p] = "idle"
    /\ \E n \in Nodes, k \in RtKinds : \E i \in InputsFor(n) : Invoke(p, n, i, k)

\* the orchestrator invokes a node of a running workflow on the shared store
CallShared(p) ==
    /\ pc[p] = "idle"
    /\ \E n \in SharedNodes : \E i \in SharedInputsFor(n) : Invoke(p, n, i, "store")

\* the nodes that return a write intent, and the nodes that only read the store
WriterNodes == {"var.set", "var.delete", "var.clear"}
ReaderNodes == {"var.get", "var.exists", "var.keys"}

\* the single writer of the orchestrator invokes a write-intent node
CallWriter(p) ==
    /\ pc[p] = "idle"
    /\ \E n \in WriterNodes : \E i \in SharedInputsFor(n) : Invoke(p, n, i, "store")

\* the orchestrator invokes a read-only node on the shared store
CallReader(p) ==
    /\ pc[p] = "idle"
    /\ \E n \in ReaderNodes : \E i \in SharedInputsFor(n) : Invoke(p, n, i, "store")

\* the orchestrator invokes a pure node, which is given no runtime
CallPure(p) ==
    /\ pc[p] = "idle"
    /\ \E n \in PureNodes : \E i \in PureInputsFor(n) : Invoke(p, n, i, "none")

\* a node body that wrote its own intent into the store
RuntimeAfterWriting(n, i, st) ==
    LET o == VarSet(i, RtNone) IN
    IF n = "var.set" /\ "key" \in DOMAIN o
    THEN [map |-> (o["key"].s :> o["value"]) @@ st.map,
          ord |-> IF o["key"].s \in DOMAIN st.map THEN st.ord ELSE Append(st.ord, o["key"].s)]
    ELSE st

\* a var.clear body that cleared the store itself
RuntimeAfterClearing(n, i, st) ==
    IF n = "var.clear" THEN [map |-> EmptyMap, ord |-> <<>>] ELSE st

\* the store after a node body ran: execute holds only a shared reference
\* (&dyn Any) and no node body writes through it
RuntimeAfter(n, i, st) == st

\* the body of execute runs to its return or to a panic
Execute(p) ==
    /\ pc[p] = "called"
    /\ \E o \in execute(node[p], inputs[p], View(rt[p])) :
         /\ pc' = [pc EXCEPT ![p] = IF o.panic THEN "panicked" ELSE "returned"]
         /\ out' = [out EXCEPT ![p] = o.out]
    /\ LET st == RuntimeAfter(node[p], inputs[p], [map |-> store, ord |-> order])
       IN  store' = st.map /\ order' = st.ord
    /\ UNCHANGED <<node, inputs, rt, alone, hist, json, written>>

\* the slot is free again
Release(p) ==
    /\ pc' = [pc EXCEPT ![p] = "idle"]
    /\ node' = [node EXCEPT ![p] = "none"]
    /\ inputs' = [inputs EXCEPT ![p] = EmptyMap]
    /\ rt' = [rt EXCEPT ![p] = "none"]
    /\ out' = [out EXCEPT ![p] = EmptyMap]
    /\ alone' = [alone EXCEPT ![p] = {}]
    /\ UNCHANGED <<hist, json>>

\* slot p holds the intent a write-intent node n returned
Intent(p, n) ==
    /\ pc[p] = "returned"
    /\ node[p] = n
    /\ n \in {"var.set", "var.delete", "var.clear"}
    /\ out[p]["success"] = VBool(TRUE)

Remove(seq, k) == SelectSeq(seq, LAMBDA x : x # k)

Without(m, k) == [x \in DOMAIN m \ {k} |-> m[x]]

\* the orders in which a HashMap holding the keys S may iterate
Orders(S) ==
    {s \in [1..Cardinality(S) -> S] : \A i, j \in 1..Cardinality(S) : s[i] = s[j] => i = j}

\* the orchestrator applies a set intent: HashMap::insert(key, value)
ApplySet(p) ==
    /\ Intent(p, "var.set")
    /\ ~Borrowed
    /\ LET k == out[p]["key"].s IN
         /\ store' = (k :> out[p]["value"]) @@ store
         /\ order' \in IF k \in DOMAIN store THEN {order} ELSE Orders(DOMAIN store \cup {k})
    /\ written' = (inputs[p]["key"].s :> InputOrNull(p, "value")) @@ written
    /\ Release(p)

\* the orchestrator applies a delete intent: HashMap::remove(key)
ApplyDelete(p) ==
    /\ Intent(p, "var.delete")
    /\ ~Borrowed
    /\ LET k == out[p]["key"].s IN
         /\ store' = Without(store, k)
         /\ order' = Remove(order, k)
    /\ written' = Without(written, inputs[p]["key"].s)
    /\ Release(p)

\* the orchestrator applies a clear intent: HashMap::clear()
ApplyClear(p) ==
    /\ Intent(p, "var.clear")
    /\ ~Borrowed
    /\ store' = EmptyMap
    /\ order' = <<>>
    /\ written' = EmptyMap
    /\ Release(p)

\* the orchestrator merges any other output back into the graph
Collect(p) ==
    /\ pc[p] = "returned"
    /\ \A n \in Nodes : ~Intent(p, n)
    /\ Release(p)
    /\ UNCHANGED <<store, order, written>>

\* the content of the snapshot a call of kind k is given
Content(k) == IF k = "store" THEN store ELSE EmptyMap

\* the orchestrator keeps a finished invocation to compare a later one with
Remember(p) ==
    /\ pc[p] = "returned"
    /\ hist = NoHist
    /\ hist' = [node |-> node[p], inputs |-> inputs[p], kind |-> rt[p],
                content |-> Content(rt[p]), out |-> out[p]]
    /\ UNCHANGED <<store, order, pc, node, inputs, rt, out, alone, json, written>>

\* n lists, each the only element of the one around it
RECURSIVE Nested(_)
Nested(n) ==
    IF n = 1 THEN [t |-> "list", l |-> <<>>] ELSE [t |-> "list", l |-> <<Nested(n - 1)>>]

\* values handed to convert.to_json: every variant, strings that need
\* escaping, nested lists and objects
JsonVals ==
    Scalars
        \cup {VInt(0 - 4), VInt(12), VFloat(0 - 5, 2), VFloat(1, 1), VFloat(0, 1), VFloat(13, 4)}
        \cup {VStr(x) : x \in {"", "ab", "a\"b", "\\", "a\nb", "1", "null"}}
        \cup {VList(l) : l \in SeqsUpTo({VInt(1), VStr("a"), VList(<<VNull>>)}, MaxLen)}
        \cup {VObj(("b" :> VList(<<VInt(1), VBool(TRUE)>>)) @@ ("a" :> VObj("c" :> VNull))),
              VList(<<VObj("a" :> VList(<<VObj(EmptyMap)>>)), VFloat(1, 2)>>)}

\* lists nested as deep as the parser goes, and one deeper
DeepVals == {Nested(RecursionLimit - 1), Nested(RecursionLimit)}

\* the inputs convert.to_json is checked on
JsonInputs ==
    {a @@ b : a \in Opt("value", JsonVals),
              b \in Opt("pretty", {VBool(TRUE), VBool(FALSE), VStr("true")})}
        \cup {"value" :> v : v \in DeepVals}

\* texts handed to convert.parse_json that no writer produced: not JSON, or
\* JSON written another way
JsonTexts ==
    {"", "{invalid}", "[1,]", "01", "[1 2]", "{\"a\" 1}", "nul", "1 1", " [ 1 , 2 ] ",
     "1e2", "25e-1", "-0", "\"a", "{\"a\":1,\"a\":2}", "[", "1.", "{\"a\":1,}", "{1:2}",
     "[\"a\\\\\\\"\"]", "tru", "\"a\nb\"", "{\"a\":[]", "]"}

\* convert.to_json is invoked in slot p and reads its value
CallJson(p) ==
    /\ pc[p] = "idle"
    /\ \E i \in JsonInputs :
         /\ inputs' = [inputs EXCEPT ![p] = i]
         /\ json' = [json EXCEPT ![p] = to_string(unwrap_or(get(i, "value"), VNull))]
    /\ pc' = [pc EXCEPT ![p] = "called"]
    /\ node' = [node EXCEPT ![p] = "convert.to_json"]
    /\ rt' = [rt EXCEPT ![p] = "none"]
    /\ UNCHANGED <<store, order, out, alone, hist, written>>

\* the writer of convert.to_json writes its next token, or is done and
\* execute returns the text
Write(p) ==
    /\ pc[p] = "called"
    /\ json[p].phase = "write"
    /\ LET pretty == unwrap_or(from_value_bool(get(inputs[p], "pretty")), FALSE) IN
       IF Len(json[p].work) = 0
       THEN /\ out' = [out EXCEPT ![p] = "result" :> VStr(json[p].buf)]
            /\ pc' = [pc EXCEPT ![p] = "returned"]
            /\ json' = [json EXCEPT ![p] = NoJson]
       ELSE /\ json' = [json EXCEPT ![p] = write(json[p], pretty)]
            /\ UNCHANGED <<pc, out>>
    /\ UNCHANGED <<store, order, node, inputs, rt, alone, hist, written>>

\* convert.parse_json starts in slot p on inputs i
ParseJson(p, i) ==
    /\ pc' = [pc EXCEPT ![p] = "called"]
    /\ node' = [node EXCEPT ![p] = "convert.parse_json"]
    /\ inputs' = [inputs EXCEPT ![p] = i]
    /\ rt' = [rt EXCEPT ![p] = "none"]
    /\ out' = [out EXCEPT ![p] = EmptyMap]
    /\ json' = [json EXCEPT ![p] =
                  from_str(unwrap_or(from_value_String(get(i, "string")), ""))]
    /\ UNCHANGED <<store, order, alone, written>>

\* convert.parse_json is invoked on a text of the orchestrator's
CallParse(p) ==
    /\ pc[p] = "idle"
    /\ \E i \in Opt("string", {VInt(1)} \cup {VStr(t) : t \in JsonTexts}) : ParseJson(p, i)
    /\ UNCHANGED hist

\* the orchestrator wires the result of convert.to_json to the string of
\* convert.parse_json, and keeps the convert.to_json invocation
Pipe(p) ==
    /\ pc[p] = "returned"
    /\ node[p] = "convert.to_json"
    /\ hist' = [node |-> node[p], inputs |-> inputs[p], kind |-> rt[p],
                content |-> Content(rt[p]), out |-> out[p]]
    /\ ParseJson(p, "string" :> out[p]["result"])

\* the parser of convert.parse_json reads its next token, or ends the
\* parse and execute returns its output
Parse(p) ==
    /\ pc[p] = "called"
    /\ json[p].phase = "parse"
    /\ LET r == parse(json[p]) IN
       IF r.done
       THEN /\ out' = [out EXCEPT ![p] = r.out]
            /\ pc' = [pc EXCEPT ![p] = "returned"]
            /\ json' = [json EXCEPT ![p] = NoJson]
       ELSE /\ json' = [json EXCEPT ![p] = r.j]
            /\ UNCHANGED <<pc, out>>
    /\ UNCHANGED <<store, order, node, inputs, rt, alone, hist, written>>

\* the orchestrator merges the output of a codec node back into the graph
\* and drops the invocation it kept
CollectJson(p) ==
    /\ pc[p] = "returned"
    /\ pc' = [pc EXCEPT ![p] = "idle"]
    /\ node' = [node EXCEPT ![p] = "none"]
    /\ inputs' = [inputs EXCEPT ![p] = EmptyMap]
    /\ rt' = [rt EXCEPT ![p] = "none"]
    /\ out' = [out EXCEPT ![p] = EmptyMap]
    /\ hist' = NoHist
    /\ UNCHANGED <<store, order, alone, json, written>>

C2_ExecuteLeavesStore ==
    [][ /\ \A p \in Procs :
              pc[p] = "called" /\ pc'[p] # "called" => store' = store
        /\ store' # store =>
              \E p \in Procs, n \in {"var.set", "var.delete", "var.clear"} :
                  Intent(p, n) /\ pc'[p] = "idle" ]_vars

C2_Witness ==
    /\ Intent(1, "var.set")
    /\ out[1]["key"].s \notin DOMAIN store

\* C3: two invocations of the same node with equal inputs and store
\* snapshots of equal content return equal outputs, the order of a list in
\* the output included, whatever was invoked and applied in between.
C3_EqualCallsEqualOutputs ==
    \A p \in Procs :
        ( /\ pc[p] = "returned"
          /\ hist # NoHist
          /\ hist.node = node[p]
          /\ hist.inputs = inputs[p]
          /\ hist.kind = rt[p]
          /\ hist.content = Content(rt[p]) )
        => out[p] = hist.out

\* C4: when invocations run concurrently on a read-only view of the same
\* store, in every interleaving each one returns what it returns when run
\* alone on its inputs and the view it was called with.
C4_ConcurrentAsAlone ==
    \A p \in Procs :
        /\ pc[p] = "returned" => Returned(out[p]) \in alone[p]
        /\ pc[p] = "panicked" => Panicked \in alone[p]

C4_Witness ==
    /\ pc[1] = "returned" /\ node[1] = "var.get" /\ out[1]["exists"] = VBool(TRUE)
    /\ Intent(2, "var.delete") /\ out[2]["key"] = inputs[1]["key"]
    /\ out[2]["existed"] = VBool(TRUE)

\* C5: given no store snapshot, or a runtime that is not the store, the
\* read-only nodes behave as on an empty store and never fail: var.get with
\* a key returns the supplied default (null when none) and exists = false,
\* var.exists with a key returns false, var.keys returns the empty list.
C5_NoStoreIsEmptyStore ==
    \A p \in Procs :
        (rt[p] \in {"none", "other"} /\ node[p] \in {"var.get", "var.exists", "var.keys"})
        => /\ pc[p] # "panicked"
           /\ (pc[p] = "returned" /\ node[p] = "var.get" /\ KeyIsString(p)) =>
                out[p] = ("result" :> InputOrNull(p, "default")) @@ ("exists" :> VBool(FALSE))
           /\ (pc[p] = "returned" /\ node[p] = "var.exists" /\ KeyIsString(p)) =>
                out[p] = ("result" :> VBool(FALSE))
           /\ (pc[p] = "returned" /\ node[p] = "var.keys") =>
                out[p] = ("result" :> VList(<<>>))

C5_Witness ==
    /\ pc[1] = "returned" /\ node[1] = "var.get" /\ rt[1] = "other"
    /\ KeyIsString(1) /\ inputs[1]["key"].s \in DOMAIN store
    /\ "default" \in DOMAIN inputs[1]
    /\ out[1]["result"] = inputs[1]["default"]

\* C6: on a store snapshot S and a string key k, var.get returns result S[k]
\* and exists = true when k is a key of S (also when S[k] is null and a
\* default is supplied), and the default (null when absent) and exists =
\* false when it is not; it emits no error key in either case.
C6_GetReadsSnapshot ==
    \A p \in Procs :
        (pc[p] = "returned" /\ node[p] = "var.get" /\ rt[p] = "store" /\ KeyIsString(p))
        => LET k == inputs[p]["key"].s IN
           /\ DOMAIN out[p] = {"result", "exists"}
           /\ k \in DOMAIN store =>
                out[p]["result"] = store[k] /\ out[p]["exists"] = VBool(TRUE)
           /\ k \notin DOMAIN store =>
                out[p]["result"] = InputOrNull(p, "default") /\ out[p]["exists"] = VBool(FALSE)

C6_Witness ==
    /\ pc[1] = "returned" /\ node[1] = "var.get" /\ rt[1] = "store" /\ KeyIsString(1)
    /\ inputs[1]["key"].s \in DOMAIN store
    /\ store[inputs[1]["key"].s] = VNull
    /\ "default" \in DOMAIN inputs[1]
    /\ out[1]["exists"] = VBool(TRUE)

\* C7: var.set with a string key returns success = true, that key and the
\* value input (null when absent), whatever the runtime; it returns success
\* = false with an error key only when the key is absent or not a string.
C7_SetReturnsIntent ==
    \A p \in Procs :
        (pc[p] = "returned" /\ node[p] = "var.set")
        => /\ KeyIsString(p) =>
                out[p] = ("success" :> VBool(TRUE)) @@ ("key" :> inputs[p]["key"])
                            @@ ("value" :> InputOrNull(p, "value"))
           /\ ~KeyIsString(p) =>
                out[p]["success"] = VBool(FALSE) /\ "error" \in DOMAIN out[p]

C7_Witness ==
    /\ pc[1] = "returned" /\ node[1] = "var.set" /\ rt[1] = "none"
    /\ KeyIsString(1) /\ "value" \notin DOMAIN inputs[1]
    /\ out[1]["value"] = VNull

\* C8: var.delete with a string key returns success = true, that key, and
\* existed = true exactly when the key is in the store snapshot it was given
\* (false without a snapshot); the key is still in the store after the call.
C8_DeleteReportsExisted ==
    [][ \A p \in Procs :
          ( /\ pc[p] = "called" /\ pc'[p] # "called"
            /\ node[p] = "var.delete" /\ KeyIsString(p) )
          => LET k == inputs[p]["key"].s IN
             /\ pc'[p] = "returned"
             /\ out'[p] = ("success" :> VBool(TRUE)) @@ ("key" :> VStr(k))
                            @@ ("existed" :> VBool(rt[p] = "store" /\ k \in DOMAIN store))
             /\ k \in DOMAIN store => k \in DOMAIN store' /\ store'[k] = store[k] ]_vars

C8_Witness ==
    /\ Intent(1, "var.delete")
    /\ out[1]["existed"] = VBool(TRUE)
    /\ out[1]["key"].s \in DOMAIN store
    /\ store[out[1]["key"].s] = VNull

\* C9: var.clear returns success = true and cleared = the number of entries
\* of the store snapshot it was given (0 for an empty store or none), for
\* every inputs mapping.
C9_ClearCountsEntries ==
    \A p \in Procs :
        (pc[p] = "returned" /\ node[p] = "var.clear")
        => out[p] = ("success" :> VBool(TRUE))
                      @@ ("cleared" :> VInt(IF rt[p] = "store"
                                              THEN Cardinality(DOMAIN store) ELSE 0))

C9_Witness ==
    /\ Intent(1, "var.clear")
    /\ Cardinality(DOMAIN store) = 2
    /\ out[1]["cleared"] = VInt(2)

\* the neutral values a failure path puts under a primary key
Sentinels == {VInt(0), VFloat(0, 1), VNull, VBool(FALSE), VStr(""), VList(<<>>), VObj(EmptyMap)}

\* the outputs node n returns without an error key
SuccessOutputs(n) ==
    {o.out : o \in {x \in UNION {execute(n, i, View(k)) : i \in InputsFor(n), k \in RtKinds} :
                        ~x.panic /\ "error" \notin DOMAIN x.out}}

\* C10: the output shape of a node does not depend on success or failure:
\* every key of its success path is also on its failure path, holding a
\* neutral sentinel, and the failure path adds only the error key.
C10_SameShapeOnFailure ==
    \A p \in Procs :
        (pc[p] = "returned" /\ "error" \in DOMAIN out[p])
        => /\ \A o \in SuccessOutputs(node[p]) : DOMAIN out[p] \ {"error"} = DOMAIN o
           /\ \A k \in DOMAIN out[p] \ {"error"} : out[p][k] \in Sentinels

\* node n is handed inputs i with a key it deserializes absent or mistyped
ShapeProblem(n, i) == \E k \in DOMAIN Typed(n) : k \notin DOMAIN Absorbed(n, i)

\* inputs i2 agree with inputs i1 wherever i1 is defined
Extends(i2, i1) == \A k \in DOMAIN i1 : k \in DOMAIN i2 /\ i2[k] = i1[k]

\* the numbers under input k of slot p, none unless it is a list of numbers
NumbersOf(p, k) ==
    IF /\ k \in DOMAIN inputs[p]
       /\ inputs[p][k].t = "list"
       /\ \A j \in 1..Len(inputs[p][k].l) : inputs[p][k].l[j].t = "num"
    THEN inputs[p][k].l
    ELSE <<>>

\* the domain check of the node in slot p fails on the values it proceeds with
DomainFailure(p) ==
    \/ node[p] \in {"var.get", "var.set", "var.delete", "var.exists"} /\ ~KeyIsString(p)
    \/ node[p] = "math.divide" /\ Len(NumbersOf(p, "numbers")) < 2
    \/ node[p] = "math.divide"
          /\ \E j \in 2..Len(NumbersOf(p, "numbers")) : NumbersOf(p, "numbers")[j].n = 0
    \/ node[p] = "math.subtract" /\ Len(NumbersOf(p, "numbers")) = 0
    \/ node[p] = "math.modulo" /\ InputOrNull(p, "b").t = "num" /\ InputOrNull(p, "b").n = 0

\* C11 (as claimed): for every node, an input key that is absent or holds a
\* value of the wrong type raises no error: whenever supplying well-typed
\* values for such keys lets the node succeed, the node run without them
\* emits no error key either.
C11_NoErrorFromInputShape ==
    \A p \in Procs :
        ( /\ pc[p] = "returned"
          /\ ShapeProblem(node[p], inputs[p])
          /\ \E i2 \in InputsFor(node[p]) :
                /\ Extends(i2, Absorbed(node[p], inputs[p]))
                /\ ~ShapeProblem(node[p], i2)
                /\ \A o \in execute(node[p], i2, View(rt[p])) : "error" \notin DOMAIN o.out )
        => "error" \notin DOMAIN out[p]

\* C11 (amended): for every node, an input that is absent or of the wrong
\* type raises no failure of its own: the node returns what it returns with
\* that key absent, proceeding with the key's default, and its output holds
\* an error key only when the node's own domain check fails on the values it
\* proceeds with (no string key for var.get / var.set / var.delete /
\* var.exists, fewer than two numbers or a zero divisor for math.divide, no
\* numbers for math.subtract, b = 0 for math.modulo).
C11_ShapeAbsorbedByDefaults ==
    \A p \in Procs :
        /\ pc[p] = "returned" =>
              /\ Returned(out[p]) \in execute(node[p], Absorbed(node[p], inputs[p]), View(rt[p]))
              /\ "error" \in DOMAIN out[p] => DomainFailure(p)
        /\ pc[p] = "panicked" => ~ShapeProblem(node[p], inputs[p])

C11_Witness ==
    /\ pc[1] = "returned" /\ node[1] = "list.at"
    /\ "index" \in DOMAIN inputs[1] /\ inputs[1]["index"] = VFloat(1, 1)
    /\ "list" \in DOMAIN inputs[1] /\ inputs[1]["list"] = VList(<<VInt(2), VInt(1)>>)
    /\ out[1] = ("result" :> VInt(2))

\* the product of the numerators (f = "n") or denominators (f = "d") of
\* nums[j], ..., nums[Len(nums)]
RECURSIVE ProductFrom(_, _, _)
ProductFrom(nums, j, f) ==
    IF j > Len(nums) THEN 1 ELSE nums[j][f] * ProductFrom(nums, j + 1, f)

\* C12: math.divide on a numbers list: with fewer than two operands it
\* returns result 0 and error "need at least 2 numbers"; otherwise, if an
\* operand after the first is zero, result 0 and error "division by zero" (a
\* zero first operand is no error); otherwise the first operand divided by
\* each remaining operand in turn, with no error key: the result times the
\* remaining operands is the first operand.
C12_DivideResultOrError ==
    \A p \in Procs :
        (pc[p] = "returned" /\ node[p] = "math.divide")
        => LET nums == NumbersOf(p, "numbers")
               r == out[p]["result"]
           IN  IF Len(nums) < 2
               THEN /\ DOMAIN out[p] = {"result", "error"}
                    /\ r.t = "num" /\ r.n = 0
                    /\ out[p]["error"] = VStr("need at least 2 numbers")
               ELSE IF \E j \in 2..Len(nums) : nums[j].n = 0
               THEN /\ DOMAIN out[p] = {"result", "error"}
                    /\ r.t = "num" /\ r.n = 0
                    /\ out[p]["error"] = VStr("division by zero")
               ELSE /\ DOMAIN out[p] = {"result"}
                    /\ r.t = "num"
                    /\ r.n * ProductFrom(nums, 2, "n") * nums[1].d
                          = nums[1].n * r.d * ProductFrom(nums, 2, "d")

C12_Witness ==
    /\ pc[1] = "returned" /\ node[1] = "math.divide"
    /\ "numbers" \in DOMAIN inputs[1]
    /\ inputs[1]["numbers"] = VList(<<VInt(0), VInt(6), VFloat(1, 2)>>)
    /\ out[1] = ("result" :> VFloat(0, 1))

\* C13: every math node reports its domain failures through the error key
\* while result holds the neutral value 0: math.modulo with b = 0 (b is 1
\* when absent), math.subtract and math.multiply when given fewer operands
\* than the operation requires (none); on every other input these nodes
\* emit result without an error key.
C13_MathDomainFailures ==
    \A p \in Procs :
        (pc[p] = "returned" /\ node[p] \in {"math.modulo", "math.subtract", "math.multiply"})
        => LET failure ==
                  IF node[p] = "math.modulo"
                  THEN InputOrNull(p, "b").t = "num" /\ InputOrNull(p, "b").n = 0
                  ELSE Len(NumbersOf(p, "numbers")) = 0
           IN  /\ failure =>
                    /\ DOMAIN out[p] = {"result", "error"}
                    /\ out[p]["result"].t = "num" /\ out[p]["result"].n = 0
               /\ ~failure => DOMAIN out[p] = {"result"}

\* the list under input k of slot p, empty unless it is a list
ListOf(p, k) ==
    IF k \in DOMAIN inputs[p] /\ inputs[p][k].t = "list" THEN inputs[p][k].l ELSE <<>>

\* input k of slot p is an integer
HasInt(p, k) ==
    k \in DOMAIN inputs[p] /\ inputs[p][k].t = "num" /\ inputs[p][k].k = "int"

\* the integer under input k of slot p, dflt unless it is an integer
IntOf(p, k, dflt) == IF HasInt(p, k) THEN inputs[p][k].n ELSE dflt

\* C14: list.at on a list of length L and a signed integer index i (default
\* 0) returns the element at effective index e, e = L + i when i < 0 and
\* e = i otherwise, if 0 <= e < L, and null otherwise: index -1 returns the
\* last element of a non-empty list, every i < -L returns null, and every
\* index on an empty list returns null.
C14_AtEffectiveIndex ==
    \A p \in Procs :
        (pc[p] = "returned" /\ node[p] = "list.at")
        => LET list == ListOf(p, "list")
               L == Len(list)
               i == IntOf(p, "index", 0)
               e == IF i < 0 THEN L + i ELSE i
           IN  /\ DOMAIN out[p] = {"result"}
               /\ out[p]["result"] = IF 0 <= e /\ e < L THEN list[e + 1] ELSE VNull
               /\ (i = 0 - 1 /\ L > 0) => out[p]["result"] = list[L]
               /\ i < 0 - L => out[p]["result"] = VNull
               /\ L = 0 => out[p]["result"] = VNull

C14_Witness ==
    /\ pc[1] = "returned" /\ node[1] = "list.at"
    /\ Len(ListOf(1, "list")) = MaxLen
    /\ IntOf(1, "index", 0) = 0 - 1
    /\ out[1]["result"] = VInt(MaxLen)

\* the string under input k of slot p, empty unless it is a string
StrOf(p, k) ==
    IF k \in DOMAIN inputs[p] /\ inputs[p][k].t = "str" THEN inputs[p][k].s ELSE ""

\* a range bound b on a sequence of length L: normalized, then clamped
ClampedBound(b, L) ==
    LET norm == IF b < 0 THEN L + b ELSE b
    IN  IF norm < 0 THEN 0 ELSE IF norm > L THEN L ELSE norm

\* C15: list.slice and string.substring on a sequence of length L normalize
\* each bound on its own (a negative bound b becomes L + b, an absent end L,
\* an absent start 0) and clamp it into [0, L]; the result is the run of
\* elements from the clamped start (inclusive) to the clamped end
\* (exclusive), and the empty sequence, never an error, whenever the clamped
\* start is not below the clamped end.
C15_ClampedRange ==
    \A p \in Procs :
        /\ (pc[p] = "returned" /\ node[p] = "list.slice") =>
              LET list == ListOf(p, "list")
                  L == Len(list)
                  from == ClampedBound(IntOf(p, "start", 0), L)
                  to == ClampedBound(IntOf(p, "end", L), L)
                  r == out[p]["result"]
              IN  /\ DOMAIN out[p] = {"result"}
                  /\ r.t = "list"
                  /\ Len(r.l) = (IF from < to THEN to - from ELSE 0)
                  /\ \A j \in 1..Len(r.l) : r.l[j] = list[from + j]
        /\ (pc[p] = "returned" /\ node[p] = "string.substring") =>
              LET string == StrOf(p, "string")
                  L == Len(string)
                  from == ClampedBound(IntOf(p, "start", 0), L)
                  to == ClampedBound(IntOf(p, "end", L), L)
                  r == out[p]["result"]
              IN  /\ DOMAIN out[p] = {"result"}
                  /\ r.t = "str"
                  /\ Len(r.s) = (IF from < to THEN to - from ELSE 0)
                  /\ from < to =>
                        SubSeq(string, 1, from) \o r.s \o SubSeq(string, to + 1, L) = string

C15_Witness ==
    /\ pc[1] = "returned" /\ node[1] = "list.slice"
    /\ Len(ListOf(1, "list")) = MaxLen
    /\ IntOf(1, "start", 0) = 0 - 2
    /\ HasInt(1, "end") /\ IntOf(1, "end", 0) = 0 - 1
    /\ out[1]["result"] = VList(<<VInt(MaxLen - 1)>>)

\* C16: in the output of list.sort, for every input list (lists mixing
\* variants included), every null element precedes every non-null element.
C16_NullsFirst ==
    \A p \in Procs :
        (pc[p] = "returned" /\ node[p] = "list.sort")
        => LET r == out[p]["result"].l
           IN  \A i, j \in 1..Len(r) : (r[i] = VNull /\ r[j] # VNull) => i < j

C16_Witness ==
    /\ pc[1] = "returned" /\ node[1] = "list.sort"
    /\ ListOf(1, "list") = <<VInt(2), VStr("a"), VNull, VInt(1)>>
    /\ out[1]["result"].l[1] = VNull

\* the place of each string of the model in code-point lexicographic order
StrRank == ("" :> 0) @@ ("a" :> 1) @@ ("ab" :> 2) @@ ("b" :> 3)

\* x is not above y, for two values of one variant
Ascending(x, y) ==
    CASE x.t = "num" -> x.n * y.d <= y.n * x.d
      [] x.t = "str" -> StrRank[x.s] <= StrRank[y.s]
      [] x.t = "bool" -> x.b => y.b

\* C17: for an input list whose elements all have the same variant,
\* list.sort returns the elements in ascending order: numbers by numeric
\* value, strings by code-point lexicographic order, booleans false before
\* true.
C17_HomogeneousAscending ==
    \A p \in Procs :
        ( /\ pc[p] \in {"returned", "panicked"} /\ node[p] = "list.sort"
          /\ \E t \in {"num", "str", "bool"} :
                \A i \in 1..Len(ListOf(p, "list")) : ListOf(p, "list")[i].t = t )
        => /\ pc[p] = "returned"
           /\ LET l == ListOf(p, "list")
                  r == out[p]["result"].l
              IN  /\ Len(r) = Len(l)
                  /\ \A x \in Range(l) :
                        Cardinality({i \in 1..Len(r) : r[i] = x})
                            = Cardinality({i \in 1..Len(l) : l[i] = x})
                  /\ \A i \in 1..(Len(r) - 1) : Ascending(r[i], r[i + 1])

C17_Witness ==
    /\ pc[1] = "returned" /\ node[1] = "list.sort"
    /\ ListOf(1, "list") = <<VStr("b"), VStr("ab"), VStr("")>>
    /\ out[1]["result"].l = <<VStr(""), VStr("ab"), VStr("b")>>

\* the ways of placing the n elements of a list
Placements(n) == {f \in [1..n -> 1..n] : \A i, j \in 1..n : f[i] = f[j] => i = j}

\* C18: list.sort is stable with respect to its comparison: the output is
\* the input rearranged so that any two elements the comparison treats as
\* equal keep their relative order; a list of non-null elements of pairwise
\* different variants is returned unchanged.
C18_StableSort ==
    \A p \in Procs :
        (pc[p] = "returned" /\ node[p] = "list.sort")
        => LET l == ListOf(p, "list")
               r == out[p]["result"].l
           IN  /\ Len(r) = Len(l)
               /\ \E f \in Placements(Len(l)) :
                     /\ \A i \in 1..Len(l) : r[f[i]] = l[i]
                     /\ \A i, j \in 1..Len(l) :
                           (i < j /\ cmp(l[i], l[j]) = "Equal") => f[i] < f[j]
               /\ (\A i, j \in 1..Len(l) : l[i].t # "null" /\ (i # j => l[i].t # l[j].t))
                     => r = l

\* the strings whose lowercase form is "true", "1" or "yes"
TrueStrings ==
    {a \o b \o c \o d : a \in {"t", "T"}, b \in {"r", "R"}, c \in {"u", "U"}, d \in {"e", "E"}}
        \cup {a \o b \o c : a \in {"y", "Y"}, b \in {"e", "E"}, c \in {"s", "S"}}
        \cup {"1"}

\* C19: convert.to_boolean applies strict truthiness over every Value
\* variant: a Bool gives itself; a Number true iff it is not 0; a String
\* true iff its lowercase form is exactly "true", "1" or "yes"; Null and an
\* absent input false; a List or an Object true iff it is not empty.
C19_StrictTruthiness ==
    \A p \in Procs :
        (pc[p] = "returned" /\ node[p] = "convert.to_boolean")
        => LET v == InputOrNull(p, "value")
               expected ==
                   CASE v.t = "bool" -> v = VBool(TRUE)
                     [] v.t = "num" -> v.n # 0
                     [] v.t = "str" -> v.s \in TrueStrings
                     [] v.t = "null" -> FALSE
                     [] v.t = "list" -> v.l # <<>>
                     [] v.t = "obj" -> v.o # EmptyMap
           IN  out[p] = ("result" :> VBool(expected))

C19_Witness ==
    /\ pc[1] = "returned" /\ node[1] = "convert.to_boolean"
    /\ inputs[1] = ("value" :> VStr("yEs"))
    /\ out[1]["result"] = VBool(TRUE)

\* loose truthiness of a value of the model
Truthy(v) ==
    v \notin {VBool(FALSE), VInt(0), VFloat(0, 1), VStr(""), VNull, VList(<<>>), VObj(EmptyMap)}

\* C20: logic.not, logic.or and logic.xor read every operand with loose
\* truthiness (a non-empty string, "false" included, is truthy): logic.not
\* returns the negation of its operand's truthiness, logic.or true iff at
\* least one element of values is truthy, logic.xor true iff exactly one
\* is; an absent or empty values gives false for both.
C20_LooseLogic ==
    \A p \in Procs :
        pc[p] = "returned" =>
            LET values == ListOf(p, "values")
                truthy == {i \in 1..Len(values) : Truthy(values[i])}
            IN  /\ node[p] = "logic.not" =>
                      out[p] = ("result" :> VBool(~Truthy(InputOrNull(p, "value"))))
                /\ node[p] = "logic.or" =>
                      out[p] = ("result" :> VBool(truthy # {}))
                /\ node[p] = "logic.xor" =>
                      out[p] = ("result" :> VBool(Cardinality(truthy) = 1))
                /\ (node[p] \in {"logic.or", "logic.xor"} /\ values = <<>>) =>
                      out[p] = ("result" :> VBool(FALSE))

C20_Witness ==
    /\ pc[1] = "returned" /\ node[1] = "logic.xor"
    /\ ListOf(1, "values") = <<VStr("false"), VInt(1), VBool(TRUE)>>
    /\ out[1]["result"] = VBool(FALSE)

\* C21: convert.to_list is total: a list is returned as it is, a string as
\* the list of its characters, each a one-character string, in order; null
\* or an absent value gives the empty list, and every other value v gives
\* the one-element list [v].
C21_ToListByVariant ==
    \A p \in Procs :
        node[p] = "convert.to_list" =>
            /\ pc[p] # "panicked"
            /\ pc[p] = "returned" =>
                 LET v == InputOrNull(p, "value")
                     r == out[p]["result"]
                 IN  /\ DOMAIN out[p] = {"result"}
                     /\ r.t = "list"
                     /\ v.t = "list" => r = v
                     /\ v.t = "str" =>
                          /\ Len(r.l) = Len(v.s)
                          /\ \A i \in 1..Len(v.s) : r.l[i] = VStr(SubSeq(v.s, i, i))
                     /\ v.t = "null" => r.l = <<>>
                     /\ v.t \notin {"list", "str", "null"} => r.l = <<v>>

\* a three-character string has been split
C21_Witness ==
    /\ pc[1] = "returned"
    /\ node[1] = "convert.to_list"
    /\ InputOrNull(1, "value") = VStr("abc")
    /\ out[1]["result"] = VList(<<VStr("a"), VStr("b"), VStr("c")>>)

\* element i of a list is a pair convert.to_object takes
IsPair(l, i) == l[i].t = "list" /\ Len(l[i].l) >= 2 /\ l[i].l[1].t = "str"

\* C22: convert.to_object is total and never emits error: an object is
\* returned as it is; a list gives the object that binds, for every element
\* that is a list of length >= 2 with a string first, that string to the
\* second element, the last such pair of a key winning and every other
\* element skipped; every other value gives the empty object.
C22_ToObjectByVariant ==
    \A p \in Procs :
        node[p] = "convert.to_object" =>
            /\ pc[p] # "panicked"
            /\ pc[p] = "returned" =>
                 LET v == InputOrNull(p, "value")
                     r == out[p]["result"]
                 IN  /\ DOMAIN out[p] = {"result"}
                     /\ r.t = "obj"
                     /\ v.t = "obj" => r = v
                     /\ v.t = "list" =>
                          LET pairs == {i \in 1..Len(v.l) : IsPair(v.l, i)}
                              last(k) == CHOOSE i \in pairs :
                                            /\ v.l[i].l[1].s = k
                                            /\ \A j \in pairs : v.l[j].l[1].s = k => j <= i
                          IN  /\ DOMAIN r.o = {v.l[i].l[1].s : i \in pairs}
                              /\ \A k \in DOMAIN r.o : r.o[k] = v.l[last(k)].l[2]
                     /\ v.t \notin {"obj", "list"} => DOMAIN r.o = {}

\* a key bound twice, with a skipped element in between
C22_Witness ==
    /\ pc[1] = "returned"
    /\ node[1] = "convert.to_object"
    /\ InputOrNull(1, "value")
         = VList(<<VList(<<VStr("a"), VInt(1)>>), VInt(1), VList(<<VStr("a"), VInt(2)>>)>>)
    /\ out[1]["result"] = VObj("a" :> VInt(2))

\* C23: round trip: for every Value v, the compact text convert.to_json
\* (pretty false or absent) returns for v, handed to convert.parse_json as
\* its string, comes back as a result equal to v with no error key.
C23_JsonRoundTrip ==
    \A p \in Procs :
        ( /\ pc[p] = "returned"
          /\ node[p] = "convert.parse_json"
          /\ hist.node = "convert.to_json"
          /\ get(hist.inputs, "pretty") # Some(VBool(TRUE)) )
        => /\ "error" \notin DOMAIN out[p]
           /\ out[p]["result"] = unwrap_or(get(hist.inputs, "value"), VNull)

\* C24: read-your-writes through the intent protocol: once the orchestrator
\* has applied the set intent of a var.set call for key k and value v, every
\* var.get for k on a later snapshot returns v with exists = true and
\* var.exists for k returns true, until a delete intent for k or a clear
\* intent is applied; from then on (until the next set for k) var.exists
\* for k returns false, and while no written key is left var.keys returns
\* the empty list.
C24_ReadYourWrites ==
    \A p \in Procs :
        (pc[p] = "returned" /\ rt[p] = "store") =>
            /\ (node[p] = "var.get" /\ KeyIsString(p) /\ inputs[p]["key"].s \in DOMAIN written)
                  => /\ out[p]["result"] = written[inputs[p]["key"].s]
                     /\ out[p]["exists"] = VBool(TRUE)
            /\ (node[p] = "var.exists" /\ KeyIsString(p))
                  => out[p]["result"] = VBool(inputs[p]["key"].s \in DOMAIN written)
            /\ (node[p] = "var.keys" /\ DOMAIN written = {})
                  => out[p]["result"] = VList(<<>>)

\* a value written by an applied set intent has been read back
C24_Witness ==
    /\ pc[1] = "returned"
    /\ rt[1] = "store"
    /\ node[1] = "var.get"
    /\ KeyIsString(1)
    /\ inputs[1]["key"].s \in DOMAIN written
    /\ out[1]["result"] = VInt(1)
    /\ out[1]["exists"] = VBool(TRUE)

\* C25: under a single-writer orchestrator, which runs var.delete / var.clear
\* on a snapshot and applies the returned intent before any other intent,
\* existed is true exactly when applying the delete removes an entry, and
\* cleared is the number of entries applying the clear removes, in every
\* interleaving with read-only invocations running concurrently.
C25_IntentTellsEffect ==
    [][ \A p \in Procs :
          /\ (Intent(p, "var.delete") /\ pc'[p] = "idle")
                => out[p]["existed"]
                     = VBool(Cardinality(DOMAIN store') < Cardinality(DOMAIN store))
          /\ (Intent(p, "var.clear") /\ pc'[p] = "idle")
                => out[p]["cleared"]
                     = VInt(Cardinality(DOMAIN store) - Cardinality(DOMAIN store')) ]_vars

\* the writer holds the intent of a delete of an existing key, and a reader
\* that ran beside it has returned
C25_Witness ==
    /\ Intent(1, "var.delete")
    /\ out[1]["existed"] = VBool(TRUE)
    /\ \E q \in Procs \ {1} : pc[q] = "returned" /\ node[q] \in ReaderNodes

\* C26: the nodes that inspect the store agree on one snapshot: var.keys
\* lists every key of the snapshot exactly once, and for every string key k
\* var.exists.result, var.get.exists and var.delete.existed all equal
\* (k is in var.keys.result), and var.clear.cleared is the length of
\* var.keys.result.
C26_InspectorsAgree ==
    \A p \in Procs :
        ( /\ pc[p] = "returned"
          /\ rt[p] = "store"
          /\ hist.node = "var.keys"
          /\ hist.kind = "store"
          /\ hist.content = store )
        => LET keys == hist.out["result"].l
               listed == VBool(inputs[p]["key"] \in Range(keys))
           IN  /\ {keys[i].s : i \in 1..Len(keys)} = DOMAIN store
               /\ Len(keys) = Cardinality(DOMAIN store)
               /\ node[p] = "var.exists" => out[p]["result"] = listed
               /\ node[p] = "var.get" => out[p]["exists"] = listed
               /\ node[p] = "var.delete" => out[p]["existed"] = listed
               /\ node[p] = "var.clear" => out[p]["cleared"] = VInt(Len(keys))

\* var.keys listed two keys, and var.exists ran on a snapshot of the same
\* content for one of them
C26_Witness ==
    /\ pc[1] = "returned"
    /\ rt[1] = "store"
    /\ node[1] = "var.exists"
    /\ hist.node = "var.keys"
    /\ hist.content = store
    /\ Len(hist.out["result"].l) = 2
    /\ out[1]["result"] = VBool(TRUE)

\* how many times value x occurs in list l
Count(l, x) == Cardinality({i \in 1..Len(l) : l[i] = x})

\* C27: the output of list.sort is a permutation of its input: it has the
\* same length and holds every value the same number of times; an absent
\* or non-list `list` input gives the empty list.
C27_SortPermutes ==
    \A p \in Procs :
        (pc[p] = "returned" /\ node[p] = "list.sort") =>
            LET given == InputOrNull(p, "list")
                r == out[p]["result"].l
            IN  /\ given.t = "list" =>
                      /\ Len(r) = Len(given.l)
                      /\ \A x \in Range(given.l) \cup Range(r) : Count(r, x) = Count(given.l, x)
                /\ given.t # "list" => r = <<>>

\* a list with a repeated value and values of other variants was sorted
C27_Witness ==
    /\ pc[1] = "returned"
    /\ node[1] = "list.sort"
    /\ InputOrNull(1, "list") = VList(<<VStr("a"), VInt(1), VStr("a")>>)
    /\ Len(out[1]["result"].l) = 3

\* C28: the comparison of list.sort is a consistent total preorder over the
\* Values it is handed: antisymmetric in sign, and transitive, equality
\* included, for all a, b, c of any variants.
C28_CmpIsTotalPreorder ==
    \A p \in Procs :
        (pc[p] # "idle" /\ node[p] = "list.sort") =>
            \A a, b, c \in Range(ListOf(p, "list")) :
                /\ cmp(a, b) = Reverse(cmp(b, a))
                /\ (cmp(a, b) # "Greater" /\ cmp(b, c) # "Greater") => cmp(a, c) # "Greater"
                /\ (cmp(a, b) = "Equal" /\ cmp(b, c) = "Equal") => cmp(a, c) = "Equal"

\* the strings of a list of strings, joined
RECURSIVE Concat(_)
Concat(l) == IF Len(l) = 0 THEN "" ELSE Head(l).s \o Concat(Tail(l))

\* C29: string.substring(s, start, end) is the concatenation of
\* list.slice(convert.to_list(s), start, end), for every string s and every
\* start and end, present or absent, positive or negative.
C29_SubstringIsSliceOfChars ==
    \A p \in Procs :
        ( /\ pc[p] = "returned"
          /\ node[p] = "string.substring"
          /\ InputOrNull(p, "string").t = "str" )
        => LET bounds == [k \in DOMAIN inputs[p] \cap {"start", "end"} |-> inputs[p][k]]
           IN  \A cs \in execute("convert.to_list", "value" :> inputs[p]["string"], View("none")) :
               \A sl \in execute("list.slice", ("list" :> cs.out["result"]) @@ bounds,
                                 View("none")) :
                   out[p]["result"] = VStr(Concat(sl.out["result"].l))

\* the last two characters of a string were taken with a negative start
C29_Witness ==
    /\ pc[1] = "returned"
    /\ node[1] = "string.substring"
    /\ inputs[1] = ("string" :> VStr("abc")) @@ ("start" :> VInt(0 - 2))
    /\ out[1]["result"] = VStr("bc")

\* C30: strict truthiness implies loose truthiness: when convert.to_boolean
\* returns true for v, logic.not returns false for v; and the two differ
\* exactly on the non-empty strings other than "true", "1" and "yes" in any
\* letter case, which only logic.not takes for true.
C30_StrictImpliesLoose ==
    \A p \in Procs :
        (pc[p] = "returned" /\ node[p] = "convert.to_boolean") =>
            \A o \in execute("logic.not", inputs[p], View("none")) :
                LET v == InputOrNull(p, "value")
                    strict == out[p]["result"] = VBool(TRUE)
                    loose == o.out["result"] = VBool(FALSE)
                IN  /\ strict => loose
                    /\ strict # loose
                          <=> (v.t = "str" /\ Len(v.s) > 0 /\ v.s \notin TrueStrings)

\* a string only the loose reading takes for true
C30_Witness ==
    /\ pc[1] = "returned"
    /\ node[1] = "convert.to_boolean"
    /\ InputOrNull(1, "value") = VStr("false")
    /\ out[1]["result"] = VBool(FALSE)
    /\ execute("logic.not", inputs[1], View("none")) = {Returned("result" :> VBool(FALSE))}

(***************************************************************************)
(* Specifications                                                          *)
(***************************************************************************)
\* what the orchestrator does with a call in slot p
Finish(p) ==
    \/ Execute(p)
    \/ ApplySet(p)
    \/ ApplyDelete(p)
    \/ ApplyClear(p)
    \/ Collect(p)

\* the orchestrator runs one node at a time
Next == Call(1) \/ Finish(1)

Spec == Init /\ [][Next]_vars

\* one node at a time on the shared store, an earlier invocation kept for
\* comparison
NextHist == CallShared(1) \/ CallReader(1) \/ Finish(1) \/ Remember(1)

SpecHist == Init /\ [][NextHist]_vars

\* the orchestrator runs independent nodes concurrently on the shared store
NextConc == \E p \in Procs : CallShared(p) \/ Finish(p)

SpecConc == Init /\ [][NextConc]_vars

\* the pure nodes, one at a time, on every input of their pools
NextPure == CallPure(1) \/ Execute(1) \/ Collect(1)

SpecPure == Init /\ [][NextPure]_vars

\* a single writer applying its intents one at a time, read-only nodes
\* running concurrently in the other slots
NextWriter ==
    \/ CallWriter(1) \/ Execute(1) \/ ApplySet(1) \/ ApplyDelete(1) \/ ApplyClear(1)
    \/ \E p \in Procs \ {1} : CallReader(p) \/ Execute(p) \/ Collect(p)

SpecWriter == Init /\ [][NextWriter]_vars

\* the codec nodes on their own, and the text of one handed to the other
NextJson == CallJson(1) \/ Write(1) \/ Pipe(1) \/ CallParse(1) \/ Parse(1) \/ CollectJson(1)

SpecJson == Init /\ [][NextJson]_vars

====
